---- MODULE Spec2Model ----
(***************************************************************************)
(* A model of the vango build pipeline (internal/builder), its template    *)
(* engine (internal/template) and the development server's watch loop      *)
(* (internal/server).                                                      *)
(*                                                                         *)
(*   Spec      the Builder: Build() with its parse and render worker       *)
(*             pools, and edits of the content files between builds        *)
(*   SpecIncr  the Builder: Build() and IncrementalBuild()                 *)
(*   SpecFilter the Builder: Build() over drafts and dated documents,      *)
(*             with the draft and future flags changing between builds     *)
(*   SpecTmpl  the template Engine: LoadTemplates and getTemplateName      *)
(*   SpecDev   the Server: watchFiles' debounce, the rebuild goroutines,   *)
(*             notifyClients and the live-reload subscribers               *)
(*   SpecWatch the Server's watch loop alone, every file already written   *)
(*   SpecRebuild the Server's watch loop and the /api/rebuild handler      *)
(*   SpecHistory the watch loop with Build() failing in several ways       *)
(*   SpecConn  the live-reload subscribers connecting and hanging up       *)
(*   SpecTwice builds of unchanged content on new Builders                 *)
(*   SpecReload the Engine of one Builder with template files edited       *)
(*   SpecRead  the parser's word count and reading time                    *)
(*   SpecDebounce the watch loop under fair scheduling                     *)
(*   SpecEvents the watch loop with the last event it received on record   *)
(*   SpecShared the goroutines that call the Builder at the same time      *)
(*   SpecLocks the Server's goroutines around clientsMu and statsMu        *)
(*   SpecStages the parse and render stages under fair scheduling          *)
(*   SpecEdit  builds and incremental rebuilds of an edited content tree   *)
(***************************************************************************)
EXTENDS Integers, Sequences, FiniteSets, TLC

\* ------------------------------------------------------------------------
\* Bounds
\* ------------------------------------------------------------------------
MaxTime == 1      \* edits of the content tree after its first version
MaxChanged == 2   \* length of the list IncrementalBuild is handed
NumWorkers == 2   \* goroutines of a worker pool (runtime.NumCPU())
MaxLoads == 2     \* calls of LoadTemplates on one Engine
MaxInFlight == 1  \* rebuild goroutines of watchFiles alive at once
MaxWords == 450   \* words of a page
MaxEdits == 1     \* template files edited, and edits of one template file
MaxCallers == 3   \* goroutines that have the Builder at once

\* ------------------------------------------------------------------------
\* The content tree
\* ------------------------------------------------------------------------
\* the markdown files under the content root, in filepath.Walk (lexical) order
FileOrder == <<"a.md", "blog/b.md">>

Files == {FileOrder[i] : i \in 1..Len(FileOrder)}

\* what a content file currently holds:
\*   "ok"    parses, no draft flag and no publish or expiry date
\*   "draft" parses, draft = true
\*   "bad"   ParseFile returns an error (malformed front matter, ...)
Kinds == {"ok", "draft", "bad"}

\* further front matters, in the specification of the build filter:
\*   "future"       publish_date later than the time of the build
\*   "expired"      expiry_date earlier than the time of the build
\*   "draftFuture"  draft = true and publish_date later than the build
\*   "scheduled"    publish_date earlier and expiry_date later than the build
\*   "undated"      publish_date and expiry_date under params, in a layout
\*                  parseDates does not know
DocKinds == Kinds \cup {"future", "expired", "draftFuture", "scheduled", "undated"}

\* paths IncrementalBuild can be handed besides content files
TemplatePath == "layouts/_default/single.html"
ConfigPath == "config.toml"
StaticPath == "static/site.css"
\* a file of the static tree whose name ends in .html
StaticHtmlPath == "static/404.html"

ChangedPaths == Files \cup {TemplatePath, ConfigPath, StaticPath, StaticHtmlPath}

\* the goroutines a worker pool can hold; a pool starts Builder.workers of them
Workers == 1..NumWorkers

\* an output file: the version of the page written, the context it was
\* rendered with, and whether WriteString wrote all of it
NoOutput == [ver |-> 0, ctx |-> <<>>, whole |-> FALSE]

VARIABLES
  \* the file system
  mtime,        \* content file -> modification time
  kind,         \* content file -> Kinds
  output,       \* content file -> the output file of its slug (NoOutput: none)
  \* config
  cleanBuild,   \* config.CleanBuild
  workers,      \* Builder.workers
  buildDrafts,  \* config.BuildDrafts
  buildFuture,  \* config.BuildFuture
  \* Builder
  cache,        \* Builder.cache, 0: no entry
  pages,        \* Builder.pages
  \* the calling goroutine of Build / IncrementalBuild
  pc,           \* "idle", "parse", "collectErr", "render", "copy", "done"
  lastOp,       \* the call in progress or last finished
  lastErr,      \* its return value, <<"none">> for nil
  \* parse stage
  fileChan, resultChan, errorChan,
  ppc, pcur,    \* contentWorker: position and the file in hand
  pwait,        \* the goroutine that waits for the workers and closes
  acc,          \* the collector's local slice `pages`
  \* render stage
  pageChan, rerrChan,
  rpc, rcur,    \* pageWorker: position and the page (index of b.pages) in hand
  rwait,
  \* the asset copy at the end of Build
  assets,       \* its two goroutines, errChan, and the results received
  \* history of the call in progress (not program state)
  enumerated,   \* files the walk selected
  parsed,       \* files ParseFile was called on
  rendered,     \* files generatePage was called on
  touchedOut,   \* output files written or removed
  fullRan,      \* Build() was entered
  copied,       \* copyStaticFiles was called
  failedAt,     \* file -> its mtime when ParseFile last failed in a Build (0: never)
  \* the template Engine
  themeLayoutDir, \* what GetThemeTemplatesPath returns
  themeFiles,   \* template names with an .html file under the theme's layouts
  defaultFiles, \* template names with an .html file under config.LayoutDir
  templates,    \* Engine.templates: name -> what Lookup finds
  tpc,          \* LoadTemplates: "idle", "defaults", "loaded", "failed"
  loads,        \* LoadTemplates calls so far
  selPage,      \* the page of the last Render
  selected,     \* the name getTemplateName chose for it
  generated,    \* the generatePage call of that Render: error, file, OutputPath
  fileVer,      \* <<directory, name>> -> version of the template file's text
  setVer,       \* name -> version of the text parsed into the set (0: none)
  \* the development Server
  clients,      \* Server.clients: the registered subscribers
  qlen,         \* subscriber -> messages waiting in its clientChan
  elapsed,      \* watchFiles: time.Now().Sub(lastBuild) in ms, saturating
  rb,           \* the rebuild goroutines watchFiles started
  buildErrors,  \* stats.BuildErrors, oldest first
  \* history of the watch events (not program state)
  observed,     \* the files whose bursts of events are recorded
  burst,        \* file -> age of its current burst and rebuilds it started
  manual,       \* the handler of POST /api/rebuild: "free" or "building"
  quiet,        \* ms since the last write event for an observed file
  hungUp,       \* registered subscribers whose client has disconnected
  watching,     \* the loop of watchFiles is running
  missed,       \* a write event of an observed file with no rebuild started since
  lastEvent,    \* the event watchFiles received last, while every path is observed
  \* ---- the goroutines that share the Builder
  stage,        \* caller -> the call it has made on the Builder and where it stands
  \* ---- the Server's locks and the goroutines that take them
  clientsMu,    \* s.clientsMu: the goroutine holding Lock, those holding RLock
  statsMu,      \* s.statsMu, likewise
  lpc,          \* goroutine -> where it stands between its lock operations
  todo,         \* the subscribers notifyClients' range has yet to visit
  chans,        \* subscriber -> its clientChan: "none", "open" or "closed"
  \* the content Parser
  wordCount,    \* page.WordCount of the page being parsed
  readingTime   \* page.ReadingTime, 0 until it is computed

fsvars == <<mtime, kind, output, cleanBuild, workers, buildDrafts, buildFuture>>
parsevars == <<fileChan, resultChan, errorChan, ppc, pcur, pwait, acc>>
rendervars == <<pageChan, rerrChan, rpc, rcur, rwait>>
histvars == <<enumerated, parsed, rendered, touchedOut, fullRan, copied, failedAt>>
bvars == <<fsvars, cache, pages, pc, lastOp, lastErr, parsevars, rendervars, assets, histvars>>
tvars == <<themeLayoutDir, themeFiles, defaultFiles, templates, tpc, loads, selPage, selected,
           generated, fileVer, setVer>>
dvars == <<clients, qlen, elapsed, rb, buildErrors, observed, burst, manual, quiet, hungUp,
           watching, missed, lastEvent>>
pvars == <<wordCount, readingTime>>
cvars == <<stage, clientsMu, statsMu, lpc, todo, chans>>
others == <<tvars, dvars, pvars, cvars>>

\* ------------------------------------------------------------------------
\* Helpers
\* ------------------------------------------------------------------------
\* the asset copy before Build starts it
NoCopy == [static |-> "off", theme |-> "off", errChan |-> <<>>, got |-> 0]

RECURSIVE SelectModified(_, _, _)
RECURSIVE RebuildContentFiles(_, _, _, _)
Range(s) == {s[i] : i \in 1..Len(s)}

HasSuffix(path, suffix) ==
  CASE suffix = ".md"   -> path \in Files
    [] suffix = ".html" -> path \in {TemplatePath, StaticHtmlPath}
    [] suffix = ".toml" -> path = ConfigPath
    [] OTHER -> FALSE

\* strings.Contains(file, b.config.StaticDir)
InStaticDir(path) == path \in {StaticPath, StaticHtmlPath}

\* the Page fields ShouldBuild reads, as ParseFile sets them from a front
\* matter. A date is "zero" (the zero time.Time: the key is absent, or
\* parseDates found no layout for it), "past" or "future" (earlier or later
\* than the time.Now() of the build).
FrontMatter(k) ==
  CASE k = "draft"       -> [draft |-> TRUE,  publish |-> "zero",   expiry |-> "zero"]
    [] k = "future"      -> [draft |-> FALSE, publish |-> "future", expiry |-> "zero"]
    [] k = "expired"     -> [draft |-> FALSE, publish |-> "zero",   expiry |-> "past"]
    [] k = "draftFuture" -> [draft |-> TRUE,  publish |-> "future", expiry |-> "zero"]
    [] k = "scheduled"   -> [draft |-> FALSE, publish |-> "past",   expiry |-> "future"]
    [] OTHER             -> [draft |-> FALSE, publish |-> "zero",   expiry |-> "zero"]

\* Page.ShouldBuild
ShouldBuildKeepsExpired(page, drafts, future) ==
  IF page.draft /\ ~drafts THEN FALSE
  ELSE IF page.publish # "zero" /\ page.publish = "future" /\ ~future THEN FALSE
  ELSE TRUE

ShouldBuild(page, drafts, future) ==
  IF page.draft /\ ~drafts THEN FALSE
  ELSE IF page.publish # "zero" /\ page.publish = "future" /\ ~future THEN FALSE
  ELSE IF page.expiry # "zero" /\ page.expiry = "past" THEN FALSE
  ELSE TRUE

\* the documents ShouldBuild accepts, as the content tree and the
\* configuration are now
Buildable ==
  {f \in Files : kind[f] # "bad" /\ ShouldBuild(FrontMatter(kind[f]), buildDrafts, buildFuture)}

\* isFileModified's test
IsFileModifiedNotOlder(c, f, t) == c[f] = 0 \/ t >= c[f]
IsFileModified(c, f, t) == c[f] = 0 \/ t > c[f]

\* the files whose cache entry the walk sets: isFileModified stores the
\* modification time of every file it reports, before any of them is parsed
StoredIfParsed(files) == {f \in Range(files) : kind[f] # "bad"}
Stored(files) == Range(files)

\* the walk of parseContentParallel: the files it selects, in walk order
SelectModified(order, c, mt) ==
  IF order = <<>> THEN <<>>
  ELSE LET f == Head(order)
           rest == SelectModified(Tail(order), c, mt)
       IN IF IsFileModified(c, f, mt[f]) THEN <<f>> \o rest ELSE rest

\* the page ParseFile builds from a file as it is now
NewPage(f) == [path |-> f, ver |-> mtime[f], out |-> FALSE]

\* the context generatePage hands to Render: b.pages
RenderContext(ps) == [i \in 1..Len(ps) |-> <<ps[i].path, ps[i].ver>>]

ContextPaths(ctx) == {ctx[i][1] : i \in 1..Len(ctx)}

\* ------------------------------------------------------------------------
\* Builder: the start of a stage
\* ------------------------------------------------------------------------
ParseAtRest ==
  /\ fileChan' = <<>>
  /\ resultChan' = <<>>
  /\ errorChan' = <<>>
  /\ ppc' = [w \in Workers |-> "off"]
  /\ pcur' = [w \in Workers |-> "a.md"]
  /\ pwait' = "off"
  /\ acc' = <<>>

RenderAtRest ==
  /\ pageChan' = <<>>
  /\ rerrChan' = <<>>
  /\ rpc' = [w \in Workers |-> "off"]
  /\ rcur' = [w \in Workers |-> 1]
  /\ rwait' = "off"

\* generatePagesParallel up to the collector's loop: with no page it returns
\* nil (Build goes on to copy the assets), else it starts the page workers
\* and queues every page of b.pages
StartRender(ps) ==
  IF Len(ps) = 0
  THEN /\ pc' = "copy"
       /\ RenderAtRest
  ELSE /\ pc' = "render"
       /\ pageChan' = [i \in 1..Len(ps) |-> i]
       /\ rerrChan' = <<>>
       /\ rpc' = [w \in Workers |-> IF w <= workers THEN "recv" ELSE "off"]
       /\ rcur' = [w \in Workers |-> 1]
       /\ rwait' = "wait"

\* cleanPublicDir: os.RemoveAll of the public directory
CleanedOutput == [f \in Files |-> NoOutput]

\* the output files that exist
Existing(out) == {f \in Files : out[f] # NoOutput}

\* ------------------------------------------------------------------------
\* Builder.Build, up to the start of the parse workers
\* ------------------------------------------------------------------------
BuildOutcomes == {"ok", "themeErr", "cleanErr", "mkdirErr", "tmplErr", "walkErr"}

\* whether parseContentParallel's walk of the content directory has run by
\* the time LoadTemplates returns: Build calls LoadTemplates first
WalkBeforeTemplatesSwapped == TRUE
WalkBeforeTemplates == FALSE

\* Build() from its entry to the collector's first receive. `how` is the
\* first step that fails (I/O, a template that does not parse), "ok" if none.
BuildEnter(how) ==
  /\ fullRan' = TRUE
  /\ parsed' = {}
  /\ rendered' = {}
  /\ UNCHANGED <<mtime, kind, cleanBuild, workers, buildDrafts, buildFuture, failedAt>>
  /\ CASE how = "themeErr" ->
            /\ lastErr' = <<"theme">>
            /\ pc' = "done"
            /\ enumerated' = {}
            /\ touchedOut' = {}
            /\ ParseAtRest /\ RenderAtRest
            /\ UNCHANGED <<output, cache, pages>>
       [] how = "cleanErr" ->
            \* RemoveAll failed: any part of the tree may be gone
            /\ cleanBuild
            /\ \E gone \in SUBSET Existing(output) :
                 /\ output' = [f \in Files |-> IF f \in gone THEN NoOutput ELSE output[f]]
                 /\ touchedOut' = gone
            /\ lastErr' = <<"clean">>
            /\ pc' = "done"
            /\ enumerated' = {}
            /\ ParseAtRest /\ RenderAtRest
            /\ UNCHANGED <<cache, pages>>
       [] how = "mkdirErr" ->
            /\ output' = IF cleanBuild THEN CleanedOutput ELSE output
            /\ touchedOut' = IF cleanBuild THEN Existing(output) ELSE {}
            /\ lastErr' = <<"mkdir">>
            /\ pc' = "done"
            /\ enumerated' = {}
            /\ ParseAtRest /\ RenderAtRest
            /\ UNCHANGED <<cache, pages>>
       [] how = "tmplErr" ->
            \* LoadTemplates returned an error
            LET files == IF WalkBeforeTemplates
                         THEN SelectModified(FileOrder, cache, mtime) ELSE <<>> IN
            /\ output' = IF cleanBuild THEN CleanedOutput ELSE output
            /\ touchedOut' = IF cleanBuild THEN Existing(output) ELSE {}
            /\ lastErr' = <<"templates">>
            /\ pc' = "done"
            /\ enumerated' = Range(files)
            /\ cache' = [f \in Files |-> IF f \in Stored(files) THEN mtime[f] ELSE cache[f]]
            /\ ParseAtRest /\ RenderAtRest
            /\ UNCHANGED pages
       [] how = "walkErr" ->
            \* filepath.Walk reports an error after it has visited the first
            \* k files: the cache holds what isFileModified stored for them
            /\ \E k \in 0..Len(FileOrder) :
                 LET files == SelectModified(SubSeq(FileOrder, 1, k), cache, mtime) IN
                 /\ enumerated' = Range(files)
                 /\ cache' = [f \in Files |->
                                IF f \in Stored(files) THEN mtime[f] ELSE cache[f]]
            /\ output' = IF cleanBuild THEN CleanedOutput ELSE output
            /\ touchedOut' = IF cleanBuild THEN Existing(output) ELSE {}
            /\ lastErr' = <<"walk">>
            /\ pc' = "done"
            /\ ParseAtRest /\ RenderAtRest
            /\ UNCHANGED pages
       [] how = "ok" ->
            LET files == SelectModified(FileOrder, cache, mtime) IN
            /\ output' = IF cleanBuild THEN CleanedOutput ELSE output
            /\ touchedOut' = IF cleanBuild THEN Existing(output) ELSE {}
            /\ lastErr' = <<"none">>
            /\ enumerated' = Range(files)
            \* isFileModified stores the mtime of every file it reports
            /\ cache' = [f \in Files |-> IF f \in Stored(files) THEN mtime[f] ELSE cache[f]]
            /\ UNCHANGED pages
            /\ IF files = <<>>
               THEN \* "No content files to process": b.pages stays
                    /\ ParseAtRest
                    /\ StartRender(pages)
               ELSE /\ pc' = "parse"
                    /\ fileChan' = files
                    /\ resultChan' = <<>>
                    /\ errorChan' = <<>>
                    /\ ppc' = [w \in Workers |-> IF w <= workers THEN "recv" ELSE "off"]
                    /\ pcur' = [w \in Workers |-> "a.md"]
                    /\ pwait' = "wait"
                    /\ acc' = <<>>
                    /\ RenderAtRest

Build(how) ==
  /\ pc = "idle"
  /\ lastOp' = [kind |-> "build", changed |-> <<>>]
  /\ copied' = FALSE
  /\ BuildEnter(how)
  /\ UNCHANGED <<assets, others>>

\* ------------------------------------------------------------------------
\* parseContentParallel: the workers, the closer and the collector
\* ------------------------------------------------------------------------
\* a channel after a receive: the value received is no longer in it
ReceivedStays(ch) == ch
Received(ch) == Tail(ch)

\* contentWorker: `for filePath := range fileChan` receives the next file
WorkerRecv(w) ==
  /\ ppc[w] = "recv"
  /\ fileChan # <<>>
  /\ pcur' = [pcur EXCEPT ![w] = Head(fileChan)]
  /\ fileChan' = Received(fileChan)
  /\ ppc' = [ppc EXCEPT ![w] = "parse"]
  /\ UNCHANGED <<fsvars, cache, pages, pc, lastOp, lastErr, resultChan, errorChan,
                 pwait, acc, rendervars, histvars>>
  /\ UNCHANGED <<assets, others>>

\* the capacity of the channels of a stage that works on n items:
\* make(chan ..., len(files)), make(chan ..., len(b.pages))
ChanCapUnbuffered(n) == 0
ChanCap(n) == n

\* a send on a buffered channel returns when the buffer has room
CanSend(ch, n) == Len(ch) < ChanCap(n)

\* where a worker goes after a file that failed to parse: `continue`
AfterParseError == "recv"

\* contentWorker's loop body: ParseFile and ShouldBuild on the file in hand
WorkerParse(w) ==
  /\ ppc[w] = "parse"
  /\ parsed' = parsed \cup {pcur[w]}
  /\ CASE kind[pcur[w]] = "bad" ->
            /\ CanSend(errorChan, Cardinality(enumerated))
            /\ errorChan' = Append(errorChan, pcur[w])
            /\ ppc' = [ppc EXCEPT ![w] = AfterParseError]
            /\ failedAt' = [failedAt EXCEPT ![pcur[w]] = mtime[pcur[w]]]
            /\ UNCHANGED resultChan
       [] pcur[w] \in Buildable ->
            /\ CanSend(resultChan, Cardinality(enumerated))
            /\ resultChan' = Append(resultChan, NewPage(pcur[w]))
            /\ ppc' = [ppc EXCEPT ![w] = "recv"]
            /\ UNCHANGED <<errorChan, failedAt>>
       [] OTHER ->
            \* ShouldBuild reports false: `continue`
            /\ ppc' = [ppc EXCEPT ![w] = "recv"]
            /\ UNCHANGED <<resultChan, errorChan, failedAt>>
  /\ UNCHANGED <<fsvars, cache, pages, pc, lastOp, lastErr, fileChan, pcur, pwait, acc,
                 rendervars, enumerated, rendered, touchedOut, fullRan, copied>>
  /\ UNCHANGED <<assets, others>>

\* contentWorker: fileChan is closed and empty, the loop ends, wg.Done()
WorkerDone(w) ==
  /\ ppc[w] = "recv"
  /\ fileChan = <<>>
  /\ ppc' = [ppc EXCEPT ![w] = "done"]
  /\ UNCHANGED <<fsvars, cache, pages, pc, lastOp, lastErr, fileChan, resultChan,
                 errorChan, pcur, pwait, acc, rendervars, histvars>>
  /\ UNCHANGED <<assets, others>>

\* wg.Wait() returns
AllWorkersDone == \A w \in Workers : ppc[w] \in {"off", "done"}

\* the closer goroutine: wg.Wait(); close(resultChan); close(errorChan)
CloseResults ==
  /\ pwait = "wait"
  /\ AllWorkersDone
  /\ pwait' = "resultClosed"
  /\ UNCHANGED <<fsvars, cache, pages, pc, lastOp, lastErr, fileChan, resultChan,
                 errorChan, ppc, pcur, acc, rendervars, histvars>>
  /\ UNCHANGED <<assets, others>>

CloseErrors ==
  /\ pwait = "resultClosed"
  /\ pwait' = "closed"
  /\ UNCHANGED <<fsvars, cache, pages, pc, lastOp, lastErr, fileChan, resultChan,
                 errorChan, ppc, pcur, acc, rendervars, histvars>>
  /\ UNCHANGED <<assets, others>>

\* `for page := range resultChan` ends: only once the channel is closed
ResultsDrainedEarly == TRUE
ResultsDrained == pwait \in {"resultClosed", "closed"}

\* `for err := range errorChan` ends: only once the channel is closed
ErrorsDrained == pwait = "closed"

\* the collector's first loop; the buffered channel holds every page sent so
\* far, in the order the workers sent them
CollectResults ==
  /\ pc = "parse"
  /\ ResultsDrained
  /\ acc' = resultChan
  /\ pc' = "collectErr"
  /\ UNCHANGED <<fsvars, cache, pages, lastOp, lastErr, fileChan, resultChan,
                 errorChan, ppc, pcur, pwait, rendervars, histvars>>
  /\ UNCHANGED <<assets, others>>

\* len(errors) > 0
ParseFailedNever(errs) == FALSE
ParseFailed(errs) == Len(errs) > 0

\* b.pages when parseContentParallel returns its error: the return comes
\* before `b.pages = pages`
PagesOnParseErrorPartial(old, collected) == collected
PagesOnParseError(old, collected) == old

\* the collector's second loop and the rest of parseContentParallel; on
\* success Build goes on into generatePagesParallel
CollectErrors ==
  /\ pc = "collectErr"
  /\ ErrorsDrained
  /\ IF ParseFailed(errorChan)
     THEN /\ lastErr' = <<"parse", errorChan[1]>>
          /\ pc' = "done"
          /\ pages' = PagesOnParseError(pages, acc)
          /\ UNCHANGED rendervars
     ELSE /\ pages' = acc
          /\ StartRender(acc)
          /\ UNCHANGED lastErr
  /\ UNCHANGED <<fsvars, cache, lastOp, parsevars, histvars>>
  /\ UNCHANGED <<assets, others>>

\* ------------------------------------------------------------------------
\* generatePagesParallel: the page workers, the closer and the collector
\* ------------------------------------------------------------------------
\* pageWorker: `for page := range pageChan` receives the next page
PageRecv(w) ==
  /\ rpc[w] = "recv"
  /\ pageChan # <<>>
  /\ rcur' = [rcur EXCEPT ![w] = Head(pageChan)]
  /\ pageChan' = Tail(pageChan)
  /\ rpc' = [rpc EXCEPT ![w] = "gen"]
  /\ UNCHANGED <<fsvars, cache, pages, pc, lastOp, lastErr, parsevars, rerrChan,
                 rwait, histvars>>
  /\ UNCHANGED <<assets, others>>

GenOutcomes == {"ok", "err", "writeErr"}

\* the file generatePage leaves at the page's output path:
\*   "ok"        the whole rendering of the page with context ctx
\*   "writeErr"  os.Create truncated the file and WriteString failed
\*   "err"       Render, MkdirAll or os.Create failed: the file is as before
Written(old, page, ctx, how) ==
  CASE how = "ok" -> [ver |-> page.ver, ctx |-> ctx, whole |-> TRUE]
    [] how = "writeErr" -> [ver |-> page.ver, ctx |-> ctx, whole |-> FALSE]
    [] OTHER -> old

\* pageWorker's loop body: generatePage on the page in hand, which renders
\* it against b.pages, writes the file and sets page.OutputPath
PageGenerate(w, how) ==
  /\ rpc[w] = "gen"
  /\ how # "ok" => CanSend(rerrChan, Len(pages))
  /\ LET page == pages[rcur[w]]
         f == page.path
     IN /\ output' = [output EXCEPT ![f] = Written(output[f], page, RenderContext(pages), how)]
        /\ rendered' = rendered \cup {f}
        /\ touchedOut' = IF how = "err" THEN touchedOut ELSE touchedOut \cup {f}
        /\ pages' = IF how = "ok" THEN [pages EXCEPT ![rcur[w]].out = TRUE] ELSE pages
        /\ rerrChan' = IF how = "ok" THEN rerrChan ELSE Append(rerrChan, f)
  /\ rpc' = [rpc EXCEPT ![w] = "recv"]
  /\ UNCHANGED <<mtime, kind, cleanBuild, workers, buildDrafts, buildFuture, failedAt,
                 cache, pc, lastOp, lastErr,
                 parsevars, pageChan, rcur, rwait, enumerated, parsed, fullRan, copied>>
  /\ UNCHANGED <<assets, others>>

\* pageWorker: pageChan is closed and empty, the loop ends, wg.Done()
PageDone(w) ==
  /\ rpc[w] = "recv"
  /\ pageChan = <<>>
  /\ rpc' = [rpc EXCEPT ![w] = "done"]
  /\ UNCHANGED <<fsvars, cache, pages, pc, lastOp, lastErr, parsevars, pageChan,
                 rerrChan, rcur, rwait, histvars>>
  /\ UNCHANGED <<assets, others>>

\* the closer goroutine: wg.Wait(); close(errorChan)
CloseRenderErrors ==
  /\ rwait = "wait"
  /\ \A w \in Workers : rpc[w] \in {"off", "done"}
  /\ rwait' = "closed"
  /\ UNCHANGED <<fsvars, cache, pages, pc, lastOp, lastErr, parsevars, pageChan,
                 rerrChan, rpc, rcur, histvars>>
  /\ UNCHANGED <<assets, others>>

\* `for err := range errorChan` of generatePagesParallel ends: only once the
\* closer has closed the channel
RenderErrorsDrainedEarly == TRUE
RenderErrorsDrained == rwait = "closed"

\* the collector's loop and the rest of generatePagesParallel
CollectRenderErrors ==
  /\ pc = "render"
  /\ RenderErrorsDrained
  /\ IF Len(rerrChan) > 0
     THEN /\ lastErr' = <<"render", rerrChan[1]>>
          /\ pc' = "done"
     ELSE /\ pc' = "copy"
          /\ UNCHANGED lastErr
  /\ UNCHANGED <<fsvars, cache, pages, lastOp, parsevars, rendervars, histvars>>
  /\ UNCHANGED <<assets, others>>

\* the end of Build: copyStaticFiles and CopyThemeAssets in two goroutines
\* that send their results on errChan (capacity 2)
CopyAssets ==
  /\ pc = "copy"
  /\ assets = NoCopy
  /\ assets' = [NoCopy EXCEPT !.static = "run", !.theme = "run"]
  /\ copied' = TRUE
  /\ UNCHANGED <<fsvars, cache, pages, pc, lastOp, lastErr, parsevars, rendervars,
                 enumerated, parsed, rendered, touchedOut, fullRan, failedAt>>
  /\ UNCHANGED others

\* copyStaticFiles returns in its goroutine:
\*   "missing"  os.Stat says the static directory does not exist: nil
\*   "copied"   the walk copied every file: nil
\*   "failed"   the walk or a copy returned an error
\* A goroutine still running when Build has returned is not followed further.
CopyStaticFiles(res) ==
  /\ pc = "copy"
  /\ assets.static = "run"
  /\ assets' = [assets EXCEPT
                  !.static = res,
                  !.errChan = Append(@, IF res = "failed" THEN "err" ELSE "nil")]
  /\ UNCHANGED <<fsvars, cache, pages, pc, lastOp, lastErr, parsevars, rendervars,
                 histvars>>
  /\ UNCHANGED others

\* themeManager.CopyThemeAssets returns in its goroutine
CopyThemeAssets(ok) ==
  /\ pc = "copy"
  /\ assets.theme = "run"
  /\ assets' = [assets EXCEPT
                  !.theme = IF ok THEN "copied" ELSE "failed",
                  !.errChan = Append(@, IF ok THEN "nil" ELSE "err")]
  /\ UNCHANGED <<fsvars, cache, pages, pc, lastOp, lastErr, parsevars, rendervars,
                 histvars>>
  /\ UNCHANGED others

\* for i := 0; i < 2; i++: the loop has received n results without error
AllReceivedFirst(n) == n >= 1
AllReceived(n) == n = 2

\* Build receives one result from errChan: it returns the error if it is
\* one, and returns nil after the last result
CopyAwait ==
  /\ pc = "copy"
  /\ assets.errChan # <<>>
  /\ LET err == Head(assets.errChan)
         n == assets.got + 1
     IN /\ assets' = [assets EXCEPT !.errChan = Tail(@), !.got = n]
        /\ IF err = "err"
           THEN lastErr' = <<"copy">> /\ pc' = "done"
           ELSE IF AllReceived(n)
                THEN lastErr' = <<"none">> /\ pc' = "done"
                ELSE UNCHANGED <<lastErr, pc>>
  /\ UNCHANGED <<fsvars, cache, pages, lastOp, parsevars, rendervars, histvars>>
  /\ UNCHANGED others

\* ------------------------------------------------------------------------
\* Builder.IncrementalBuild
\* ------------------------------------------------------------------------
\* the switch of IncrementalBuild's first loop, case by case in its order
IsTemplate(path) == HasSuffix(path, ".html")
IsConfig(path) == ~IsTemplate(path) /\ HasSuffix(path, ".toml")
IsContent(path) == ~IsTemplate(path) /\ ~HasSuffix(path, ".toml") /\ HasSuffix(path, ".md")
IsStatic(path) ==
  /\ ~IsTemplate(path) /\ ~HasSuffix(path, ".toml") /\ ~HasSuffix(path, ".md")
  /\ InStaticDir(path)

\* needsFullRebuild after the first loop
NeedsFullRebuildAlsoContent(changed) == \E i \in 1..Len(changed) : TRUE
NeedsFullRebuildNoConfig(changed) == \E i \in 1..Len(changed) : IsTemplate(changed[i])
NeedsFullRebuild(changed) ==
  \E i \in 1..Len(changed) : IsTemplate(changed[i]) \/ IsConfig(changed[i])

\* the context rebuildContentFile's generatePage hands to Render for the
\* page it has just parsed: b.pages as the last full Build left it
RebuildContextWithNew(ps, page) ==
  [i \in 1..Len(ps) |-> IF ps[i].path = page.path THEN <<page.path, page.ver>>
                         ELSE <<ps[i].path, ps[i].ver>>]
RebuildContext(ps, page) == RenderContext(ps)

\* contentFiles after the first loop
ContentFilesOf(changed) == SelectSeq(changed, IsContent)

\* the second loop of IncrementalBuild: rebuildContentFile on each content
\* file in turn, stopping at the first error. `st` is the state so far,
\* `failAt` the position in `files` (0: none) at which generatePage fails
\* (how: "err" or "writeErr").
RebuildContentFiles(files, st, failAt, how) ==
  IF files = <<>> THEN st
  ELSE LET f == Head(files)
           seen == [st EXCEPT !.parsed = @ \cup {f}]
       IN CASE kind[f] = "bad" -> [seen EXCEPT !.err = <<"parse", f>>]
            [] f \notin Buildable ->
                 RebuildContentFiles(Tail(files), seen, failAt - 1, how)
            [] OTHER ->
                 LET res == IF failAt = 1 THEN how ELSE "ok"
                     gen == [seen EXCEPT
                               !.rendered = @ \cup {f},
                               !.touched = IF res = "err" THEN @ ELSE @ \cup {f},
                               !.out = [@ EXCEPT ![f] =
                                          Written(@, NewPage(f),
                                                  RebuildContext(pages, NewPage(f)), res)]]
                 IN IF res = "ok"
                    THEN RebuildContentFiles(Tail(files), gen, failAt - 1, how)
                    ELSE [gen EXCEPT !.err = <<"render", f>>]

ChangedLists ==
  UNION {[1..n -> ChangedPaths] : n \in 1..MaxChanged}

\* IncrementalBuild(changed), for any list `changed` it can be handed, when
\* the asset copy its first loop runs for a static file fails: it returns the
\* error at once
IncrementalStaticError ==
  /\ pc = "idle"
  /\ \E changed \in ChangedLists :
       /\ \E i \in 1..Len(changed) : IsStatic(changed[i])
       /\ lastOp' = [kind |-> "incremental", changed |-> changed]
  /\ lastErr' = <<"static">>
  /\ copied' = TRUE
  /\ enumerated' = {}
  /\ parsed' = {}
  /\ rendered' = {}
  /\ touchedOut' = {}
  /\ fullRan' = FALSE
  /\ pc' = "done"
  /\ UNCHANGED <<fsvars, cache, pages, parsevars, rendervars, failedAt>>
  /\ UNCHANGED <<assets, others>>

\* IncrementalBuild(changed) when a template or the configuration changed:
\* `return b.Build()`, entered here and carried on by the pipeline's steps
IncrementalFull ==
  /\ pc = "idle"
  /\ \E changed \in ChangedLists, how \in BuildOutcomes :
       /\ NeedsFullRebuild(changed)
       /\ lastOp' = [kind |-> "incremental", changed |-> changed]
       /\ copied' = \E i \in 1..Len(changed) : IsStatic(changed[i])
       /\ BuildEnter(how)
  /\ UNCHANGED <<assets, others>>

\* IncrementalBuild(changed) otherwise: the changed content files only
IncrementalContent ==
  /\ pc = "idle"
  /\ \E changed \in ChangedLists, failAt \in 0..MaxChanged, how \in {"err", "writeErr"} :
       /\ ~NeedsFullRebuild(changed)
       /\ LET files == ContentFilesOf(changed)
              st0 == [out |-> output, err |-> <<"none">>, parsed |-> {},
                      rendered |-> {}, touched |-> {}]
              st == RebuildContentFiles(files, st0, failAt, how)
          IN /\ failAt \in 0..Len(files)
             /\ failAt = 0 => how = "err"
             /\ failAt > 0 => st.err = <<"render", files[failAt]>>
             /\ output' = st.out
             /\ lastErr' = st.err
             /\ parsed' = st.parsed
             /\ rendered' = st.rendered
             /\ touchedOut' = st.touched
       /\ lastOp' = [kind |-> "incremental", changed |-> changed]
       /\ copied' = \E i \in 1..Len(changed) : IsStatic(changed[i])
  /\ enumerated' = {}
  /\ fullRan' = FALSE
  /\ pc' = "done"
  /\ UNCHANGED <<mtime, kind, cleanBuild, workers, buildDrafts, buildFuture, failedAt,
                 cache, pages, parsevars, rendervars>>
  /\ UNCHANGED <<assets, others>>

\* Build or IncrementalBuild returns lastErr to its caller; the channels and
\* worker goroutines of the call are gone
Return ==
  /\ pc = "done"
  /\ pc' = "idle"
  /\ lastOp' = [kind |-> "none", changed |-> <<>>]
  /\ lastErr' = <<"none">>
  /\ ParseAtRest /\ RenderAtRest
  /\ assets' = NoCopy
  /\ enumerated' = {} /\ parsed' = {} /\ rendered' = {} /\ touchedOut' = {}
  /\ fullRan' = FALSE /\ copied' = FALSE
  /\ UNCHANGED <<fsvars, cache, pages, failedAt>>
  /\ UNCHANGED others

\* ------------------------------------------------------------------------
\* builder.New on the same site
\* ------------------------------------------------------------------------
\* a new Builder takes the place of the old one (the command is run again,
\* or the server is restarted): its cache is empty and it has no pages; the
\* content, the configuration and the output directory are as they were
NewBuilder ==
  /\ pc = "idle"
  /\ cache # [f \in Files |-> 0]
  /\ cache' = [f \in Files |-> 0]
  /\ pages' = <<>>
  /\ failedAt' = [f \in Files |-> 0]
  /\ UNCHANGED <<fsvars, pc, lastOp, lastErr, parsevars, rendervars, assets,
                 enumerated, parsed, rendered, touchedOut, fullRan, copied>>
  /\ UNCHANGED others

\* ------------------------------------------------------------------------
\* The caller of the Builder sets the draft and future flags
\* ------------------------------------------------------------------------
\* Builder.config points to the caller's Config: a write to its BuildDrafts
\* and BuildFuture fields between two builds is what the next Build reads
Configure(drafts, future) ==
  /\ pc = "idle"
  /\ <<drafts, future>> # <<buildDrafts, buildFuture>>
  /\ buildDrafts' = drafts
  /\ buildFuture' = future
  /\ UNCHANGED <<mtime, kind, output, cleanBuild, workers, cache, pages, pc, lastOp,
                 lastErr, parsevars, rendervars, histvars>>
  /\ UNCHANGED <<assets, others>>

\* ------------------------------------------------------------------------
\* The author edits a content file
\* ------------------------------------------------------------------------
\* the latest modification time in the content tree
Latest == CHOOSE t \in {mtime[f] : f \in Files} : \A g \in Files : mtime[g] <= t

\* the edit is stamped with a time later than that of every file on disk
Touch(f, k) ==
  /\ pc = "idle"
  /\ Latest <= MaxTime
  /\ mtime' = [mtime EXCEPT ![f] = Latest + 1]
  /\ kind' = [kind EXCEPT ![f] = k]
  /\ UNCHANGED <<output, cleanBuild, workers, buildDrafts, buildFuture, cache, pages,
                 pc, lastOp, lastErr,
                 parsevars, rendervars, histvars>>
  /\ UNCHANGED <<assets, others>>

\* ------------------------------------------------------------------------
\* The template Engine (internal/template)
\* ------------------------------------------------------------------------
\* a template name is the file's path relative to the layout directory with
\* ".html" trimmed; it is kept as the sequence of its "/"-separated segments
DefaultSingle == <<"_default", "single">>
DefaultBaseof == <<"_default", "baseof">>

\* the .html files a layout directory can hold, in filepath.Walk order
TemplateOrder ==
  <<DefaultBaseof, DefaultSingle, <<"about", "single">>, <<"blog", "single">>, <<"custom">>>>

TemplateNames == Range(TemplateOrder)

\* config.LayoutDir (its default) and the layouts directory of a theme
LayoutDir == "layouts"
ThemeLayoutDir == "themes/modern/layouts"

\* an entry of the template set: the directory its text was read from and
\* whether Parse accepted it
NoTemplate == [src |-> "none", parsed |-> FALSE]
Loaded(src) == [src |-> src, parsed |-> TRUE]
Unparsed(src) == [src |-> src, parsed |-> FALSE]

\* e.templates.Lookup(name) != nil
Lookup(set, name) == name \in DOMAIN set /\ set[name] # NoTemplate

\* the walk over a directory that holds the files `files`
WalkOf(files) == SelectSeq(TemplateOrder, LAMBDA n : n \in files)

RECURSIVE ParseAndAddTemplatesWithOverride(_, _, _, _, _, _)
\* parseAndAddTemplatesWithOverride over the walk `walk` of directory `src`.
\* `failAt` is the position, among the files it reads, of the one that fails
\* (0: none): how = "read" when os.ReadFile fails, "parse" when Parse does,
\* and then New(name) has already put an empty template under the name.
ParseAndAddTemplatesWithOverride(set, walk, src, allowOverride, failAt, how) ==
  IF walk = <<>> THEN [set |-> set, err |-> FALSE]
  ELSE LET name == Head(walk) IN
       IF ~allowOverride /\ Lookup(set, name)
       THEN ParseAndAddTemplatesWithOverride(set, Tail(walk), src, allowOverride, failAt, how)
       ELSE IF failAt = 1
            THEN [set |-> IF how = "read" THEN set
                          ELSE [set EXCEPT ![name] = Unparsed(src)],
                  err |-> TRUE]
            ELSE ParseAndAddTemplatesWithOverride(
                   [set EXCEPT ![name] = Loaded(src)], Tail(walk), src,
                   allowOverride, failAt - 1, how)

\* the names parseAndAddTemplatesWithOverride reads and parses: the files of
\* the walk it does not skip, up to the one that fails
ParsedBy(set, walk, allowOverride, failAt) ==
  LET tried == SelectSeq(walk, LAMBDA n : allowOverride \/ ~Lookup(set, n))
  IN {tried[i] : i \in {j \in 1..Len(tried) : failAt = 0 \/ j < failAt}}

\* the versions of the texts in the set after such a call on directory src
VersionsAfter(read, src) ==
  [n \in TemplateNames |-> IF n \in read THEN fileVer[<<src, n>>] ELSE setVer[n]]

TemplateFiles == {"theme", "default"} \X TemplateNames

\* the pages Render is handed: Slug as its "/"-separated segments, and
\* Params["layout"].(string) as [ok, name] (ok is false when the parameter
\* is absent or not a string)
Slugs == {<<"about">>, <<"blog", "post">>}
LayoutParams ==
  {[ok |-> FALSE, name |-> <<>>]} \cup
  {[ok |-> TRUE, name |-> n] : n \in {<<"custom">>}}
TemplatePages == [slug : Slugs, layout : LayoutParams]
NoPage == [slug |-> <<>>, layout |-> [ok |-> FALSE, name |-> <<>>]]

\* no generatePage call yet
NoGenerated == [err |-> "none", wrote |-> FALSE, outputPath |-> FALSE]

\* the allowOverride argument of the two phases of LoadTemplates
ThemeOverride == TRUE
DefaultOverrideAllowed == TRUE
DefaultOverride == FALSE

FailHows == {"read", "parse"}

\* LoadTemplates, the theme phase: run only for a theme directory that is
\* not the default layout directory
LoadThemeTemplates(failAt, how) ==
  /\ tpc \in {"idle", "loaded", "failed"}
  /\ loads < MaxLoads
  /\ loads' = loads + 1
  /\ IF themeLayoutDir # "" /\ themeLayoutDir # LayoutDir
     THEN LET res == ParseAndAddTemplatesWithOverride(
                       templates, WalkOf(themeFiles), "theme", ThemeOverride, failAt, how)
          IN /\ failAt > 0 => res.err
             /\ failAt = 0 => how = "read"
             /\ templates' = res.set
             /\ setVer' = VersionsAfter(
                            ParsedBy(templates, WalkOf(themeFiles), ThemeOverride, failAt),
                            "theme")
             /\ tpc' = IF res.err THEN "failed" ELSE "defaults"
     ELSE /\ failAt = 0 /\ how = "read"
          /\ tpc' = "defaults"
          /\ UNCHANGED <<templates, setVer>>
  /\ selPage' = NoPage
  /\ selected' = <<>>
  /\ generated' = NoGenerated
  /\ UNCHANGED <<themeLayoutDir, themeFiles, defaultFiles, fileVer>>
  /\ UNCHANGED <<bvars, dvars, pvars, cvars>>

\* LoadTemplates, the default phase
LoadDefaultTemplates(failAt, how) ==
  /\ tpc = "defaults"
  /\ LET res == ParseAndAddTemplatesWithOverride(
                  templates, WalkOf(defaultFiles), "default", DefaultOverride, failAt, how)
     IN /\ failAt > 0 => res.err
        /\ failAt = 0 => how = "read"
        /\ templates' = res.set
        /\ setVer' = VersionsAfter(
                       ParsedBy(templates, WalkOf(defaultFiles), DefaultOverride, failAt),
                       "default")
        /\ tpc' = IF res.err THEN "failed" ELSE "loaded"
  /\ UNCHANGED <<themeLayoutDir, themeFiles, defaultFiles, loads, selPage, selected,
                 generated, fileVer>>
  /\ UNCHANGED <<bvars, dvars, pvars, cvars>>

\* strings.Contains(page.Slug, "/")
HasSectionAlways(slug) == TRUE
HasSection(slug) == Len(slug) > 1

\* strings.Split(page.Slug, "/")[0] + "/single"
SectionTemplate(slug) == <<slug[1], "single">>

GetTemplateName(set, page) ==
  IF page.layout.ok /\ Lookup(set, page.layout.name) THEN page.layout.name
  ELSE IF HasSection(page.slug) /\ Lookup(set, SectionTemplate(page.slug))
       THEN SectionTemplate(page.slug)
  ELSE IF Lookup(set, DefaultBaseof) THEN DefaultBaseof
  ELSE DefaultSingle

\* what Engine.Render returns for the template `name`: "notFound" when
\* Lookup gives nil, "exec" when executing the template fails (it always
\* does on a template that was never parsed), "none" for nil
RenderError(set, name, exec) ==
  IF ~Lookup(set, name) THEN "notFound"
  ELSE IF exec = "fail" \/ ~set[name].parsed THEN "exec"
  ELSE "none"

\* generatePage around Render: it returns Render's error before it creates
\* anything, else it writes the file and sets page.OutputPath
GeneratePageWritesAnyway(err) == [err |-> err, wrote |-> TRUE, outputPath |-> TRUE]
GeneratePage(err) ==
  IF err # "none" THEN [err |-> err, wrote |-> FALSE, outputPath |-> FALSE]
  ELSE [err |-> "none", wrote |-> TRUE, outputPath |-> TRUE]

\* generatePage on a page, with its Engine.Render. generatePage is called
\* from Build after LoadTemplates, and from IncrementalBuild whatever the
\* last LoadTemplates returned.
Render(page) ==
  /\ tpc \in {"loaded", "failed"}
  /\ selPage' = page
  /\ selected' = GetTemplateName(templates, page)
  /\ \E exec \in {"ok", "fail"} :
       generated' = GeneratePage(RenderError(templates, GetTemplateName(templates, page), exec))
  /\ UNCHANGED <<themeLayoutDir, themeFiles, defaultFiles, templates, tpc, loads,
                 fileVer, setVer>>
  /\ UNCHANGED <<bvars, dvars, pvars, cvars>>

\* a template file under the theme's or the default layout directory is
\* edited between two builds
EditTemplate(dir, name) ==
  /\ tpc \in {"idle", "loaded", "failed"}
  /\ dir = "theme" => (themeLayoutDir # LayoutDir /\ name \in themeFiles)
  /\ dir = "default" => name \in defaultFiles
  /\ fileVer[<<dir, name>>] <= MaxEdits
  /\ Cardinality({k \in TemplateFiles : fileVer[k] > 1} \cup {<<dir, name>>}) <= MaxEdits
  /\ fileVer' = [fileVer EXCEPT ![<<dir, name>>] = @ + 1]
  /\ UNCHANGED <<themeLayoutDir, themeFiles, defaultFiles, templates, tpc, loads,
                 selPage, selected, generated, setVer>>
  /\ UNCHANGED <<bvars, dvars, pvars, cvars>>

TAtRest ==
  /\ themeLayoutDir = LayoutDir
  /\ themeFiles = {}
  /\ defaultFiles = {}
  /\ templates = [n \in TemplateNames |-> NoTemplate]
  /\ tpc = "idle"
  /\ loads = 0
  /\ selPage = NoPage
  /\ selected = <<>>
  /\ generated = NoGenerated
  /\ fileVer = [k \in TemplateFiles |-> 1]
  /\ setVer = [n \in TemplateNames |-> 0]

\* a new Engine, and the two layout directories as they are on disk
TInit ==
  /\ themeLayoutDir \in {LayoutDir, ThemeLayoutDir}
  /\ themeFiles \in SUBSET TemplateNames
  /\ themeLayoutDir = LayoutDir => themeFiles = {}
  /\ defaultFiles \in SUBSET TemplateNames
  /\ templates = [n \in TemplateNames |-> NoTemplate]
  /\ tpc = "idle"
  /\ loads = 0
  /\ selPage = NoPage
  /\ selected = <<>>
  /\ generated = NoGenerated
  /\ fileVer = [k \in TemplateFiles |-> 1]
  /\ setVer = [n \in TemplateNames |-> 0]

\* ------------------------------------------------------------------------
\* The development Server (internal/server)
\* ------------------------------------------------------------------------
\* const debounceTime = 300 * time.Millisecond
DebounceTime == 300

\* make(chan string, 10)
ClientChanCap == 10

\* "Keep only last 10 errors"
ErrorHistoryCap == 10

\* every span above debounceTime behaves alike
Saturated == DebounceTime + 1

\* the time that passes between two steps, in ms
Delays == {100, 200}

Subscribers == {"c1", "c2"}
Goroutines == 1..MaxInFlight

\* a path under a watched directory that the watch loop ignores
\* (strings.Contains(event.Name, "/."))
HiddenPath == "content/.a.md.swp"

\* paths an editor leaves while it saves a.md
TildePath == "content/a.md~"
TmpPath == "content/a.md.tmp"

EventNames == Files \cup {HiddenPath, TildePath, TmpPath}
EventOps == {"write", "chmod"}

\* strings.Contains(event.Name, "/.")
ContainsHidden(name) == name = HiddenPath

\* strings.HasSuffix(event.Name, "~") || strings.HasSuffix(event.Name, ".tmp")
HasTempSuffix(name) == name \in {TildePath, TmpPath}

IgnoredHiddenOnly(name) == ContainsHidden(name)
Ignored(name) == ContainsHidden(name) \/ HasTempSuffix(name)

\* event.Op&fsnotify.Write == fsnotify.Write
IsWrite(op) == op = "write"

NoEvent == [name |-> "none", op |-> "none"]

\* the record of the event received; kept while every path is observed
Seen(name, op) ==
  IF EventNames \subseteq observed THEN [name |-> name, op |-> op] ELSE lastEvent

Min(a, b) == IF a < b THEN a ELSE b

\* a rebuild goroutine: where it stands, what IncrementalBuild and the
\* fallback buildSite returned, and the messages it has broadcast
NoRebuild == [pc |-> "free", incr |-> "none", full |-> "none", casts |-> <<>>]

NoBurst == [age |-> Saturated, starts |-> 0]

\* now.Sub(lastBuild) > debounceTime
DebouncePassed(span) == span > DebounceTime

\* one send of notifyClients on a queue holding n messages: the select
\* takes `case clientChan <- message` when there is room and `default`
\* when the queue is full
SendOrWait(n) == IF n < ClientChanCap THEN "sent" ELSE "blocked"
Send(n) == IF n < ClientChanCap THEN "sent" ELSE "skipped"

\* notifyClients gets through its loop over the registered subscribers
NotifyReturns(q, registered) == \A c \in registered : Send(q[c]) # "blocked"

\* notifyClients: a non-blocking send to every registered subscriber
NotifyClients(q, registered) ==
  [c \in Subscribers |->
     IF c \in registered /\ Send(q[c]) = "sent" THEN q[c] + 1 ELSE q[c]]

\* the history of the bursts after a write event for `name`; a burst is the
\* events for one file within debounceTime of its first one
BurstAfter(name, started) ==
  [f \in Files |->
     IF f # name \/ f \notin observed THEN burst[f]
     ELSE IF burst[f].age > DebounceTime
          THEN [age |-> 0, starts |-> IF started THEN 1 ELSE 0]
          ELSE [burst[f] EXCEPT !.starts = IF started THEN @ + 1 ELSE @]]

\* time passes
Advance(d) ==
  /\ elapsed' = Min(elapsed + d, Saturated)
  /\ burst' = [f \in Files |->
                 IF burst[f].age + d > DebounceTime THEN NoBurst
                 ELSE [burst[f] EXCEPT !.age = @ + d]]
  /\ quiet' = Min(quiet + d, Saturated)
  /\ <<elapsed', burst', quiet'>> # <<elapsed, burst, quiet>>
  /\ UNCHANGED <<clients, qlen, rb, buildErrors, observed, manual, hungUp, watching, missed, lastEvent>>
  /\ UNCHANGED <<bvars, tvars, pvars, cvars>>

\* watchFiles receives an event it does nothing for: a hidden or temporary
\* path, or an operation that is not a write
WatchIgnored(name, op) ==
  /\ watching
  /\ Ignored(name) \/ ~IsWrite(op)
  /\ lastEvent' = Seen(name, op)
  /\ UNCHANGED <<clients, qlen, elapsed, rb, buildErrors, observed, burst, manual, quiet,
                 hungUp, watching, missed>>
  /\ UNCHANGED <<bvars, tvars, pvars, cvars>>

\* watchFiles receives a write event less than debounceTime after lastBuild
WatchDebounced(name) ==
  /\ watching
  /\ ~Ignored(name)
  /\ ~DebouncePassed(elapsed)
  /\ burst' = BurstAfter(name, FALSE)
  /\ quiet' = IF name \in observed THEN 0 ELSE quiet
  /\ missed' = IF name \in observed THEN TRUE ELSE missed
  /\ \E op \in EventOps : IsWrite(op) /\ lastEvent' = Seen(name, op)
  /\ UNCHANGED <<clients, qlen, elapsed, rb, buildErrors, observed, manual, hungUp, watching>>
  /\ UNCHANGED <<bvars, tvars, pvars, cvars>>

\* watchFiles receives a write event and starts a rebuild goroutine
WatchTrigger(name, g) ==
  /\ watching
  /\ ~Ignored(name)
  /\ DebouncePassed(elapsed)
  /\ rb[g].pc = "free"
  /\ \A h \in Goroutines : h < g => rb[h].pc # "free"
  /\ elapsed' = 0
  /\ rb' = [rb EXCEPT ![g] = [NoRebuild EXCEPT !.pc = "incr"]]
  /\ burst' = BurstAfter(name, TRUE)
  /\ quiet' = IF name \in observed THEN 0 ELSE quiet
  /\ missed' = FALSE
  /\ \E op \in EventOps : IsWrite(op) /\ lastEvent' = Seen(name, op)
  /\ UNCHANGED <<clients, qlen, buildErrors, observed, manual, hungUp, watching>>
  /\ UNCHANGED <<bvars, tvars, pvars, cvars>>

\* where the goroutine goes when IncrementalBuild returned an error
OnIncrementalErrorSurface == "notify"
OnIncrementalError == "fallback"

\* the goroutine's IncrementalBuild([]string{event.Name}) returns
IncrementalReturns(g, ok) ==
  /\ rb[g].pc = "incr"
  /\ rb' = [rb EXCEPT ![g].incr = IF ok THEN "ok" ELSE "err",
                      ![g].pc = IF ok THEN "reload" ELSE OnIncrementalError]
  /\ UNCHANGED <<clients, qlen, elapsed, buildErrors, observed, burst, manual, quiet, hungUp, watching, missed, lastEvent>>
  /\ UNCHANGED <<bvars, tvars, pvars, cvars>>

\* the goroutine's s.notifyClients("reload") after a successful
\* IncrementalBuild
NotifyReload(g) ==
  /\ rb[g].pc = "reload"
  /\ NotifyReturns(qlen, clients)
  /\ qlen' = NotifyClients(qlen, clients)
  /\ rb' = [rb EXCEPT ![g].casts = Append(@, "reload"), ![g].pc = "done"]
  /\ UNCHANGED <<clients, elapsed, buildErrors, observed, burst, manual, quiet, hungUp, watching, missed, lastEvent>>
  /\ UNCHANGED <<bvars, tvars, pvars, cvars>>

\* what Build() returns to buildSite: "ok" for nil, else err.Error()
TemplatesError == "failed to load templates"
ContentError == "failed to parse content"
BuildResults == {"ok", TemplatesError, ContentError}

\* "Keep only last 10 errors"
KeepLastDropsNewest(errs) ==
  IF Len(errs) > ErrorHistoryCap THEN SubSeq(errs, 1, ErrorHistoryCap) ELSE errs
KeepLast(errs) == IF Len(errs) > ErrorHistoryCap THEN Tail(errs) ELSE errs

\* the watch loop after the rebuild goroutine's buildSite has failed: the
\* goroutine logs "Full rebuild failed" and ends, the loop is not told
AfterFailedRebuildStops(loop) == FALSE
AfterFailedRebuild(loop) == loop

\* buildSite up to its notification: Build() and the statistics
BuildSiteBuilds(g, res) ==
  /\ rb[g].pc = "fallback"
  /\ rb' = [rb EXCEPT ![g].full = res, ![g].pc = "notify"]
  /\ buildErrors' = IF res = "ok" THEN buildErrors
                    ELSE KeepLast(Append(buildErrors, res))
  /\ watching' = IF res = "ok" THEN watching ELSE AfterFailedRebuild(watching)
  /\ UNCHANGED <<missed, lastEvent>>
  /\ UNCHANGED <<clients, qlen, elapsed, observed, burst, manual, quiet, hungUp>>
  /\ UNCHANGED <<bvars, tvars, pvars, cvars>>

\* the message buildSite broadcasts
BuildSiteMessageReload(ok) == "reload"
BuildSiteMessage(ok) == IF ok THEN "reload" ELSE "error"

\* buildSite's notification
BuildSiteNotifies(g) ==
  /\ rb[g].pc = "notify"
  /\ NotifyReturns(qlen, clients)
  /\ qlen' = NotifyClients(qlen, clients)
  /\ rb' = [rb EXCEPT ![g].casts = Append(@, BuildSiteMessage(rb[g].full = "ok")),
                      ![g].pc = "done"]
  /\ UNCHANGED <<clients, elapsed, buildErrors, observed, burst, manual, quiet, hungUp, watching, missed, lastEvent>>
  /\ UNCHANGED <<bvars, tvars, pvars, cvars>>

\* the goroutine ends
RebuildExits(g) ==
  /\ rb[g].pc = "done"
  /\ rb' = [rb EXCEPT ![g] = NoRebuild]
  /\ UNCHANGED <<clients, qlen, elapsed, buildErrors, observed, burst, manual, quiet, hungUp, watching, missed, lastEvent>>
  /\ UNCHANGED <<bvars, tvars, pvars, cvars>>

\* handleRebuild on a POST request: it enters s.builder.Build() at once,
\* under no lock, whatever the rebuild goroutines are doing
HandleRebuild ==
  /\ manual = "free"
  /\ manual' = "building"
  /\ UNCHANGED <<clients, qlen, elapsed, rb, buildErrors, observed, burst, quiet, hungUp, watching, missed, lastEvent>>
  /\ UNCHANGED <<bvars, tvars, pvars, cvars>>

\* its Build() returns and it answers the request; nothing is broadcast
HandleRebuildReturns ==
  /\ manual = "building"
  /\ manual' = "free"
  /\ UNCHANGED <<clients, qlen, elapsed, rb, buildErrors, observed, burst, quiet, hungUp, watching, missed, lastEvent>>
  /\ UNCHANGED <<bvars, tvars, pvars, cvars>>

\* handleWebSocket registers a new subscriber
Connect(c) ==
  /\ c \notin clients
  /\ clients' = clients \cup {c}
  /\ qlen' = [qlen EXCEPT ![c] = 0]
  /\ UNCHANGED <<elapsed, rb, buildErrors, observed, burst, manual, quiet, hungUp, watching, missed, lastEvent>>
  /\ UNCHANGED <<bvars, tvars, pvars, cvars>>

\* handleWebSocket's `for message := range clientChan` takes a message
Consume(c) ==
  /\ c \in clients
  /\ qlen[c] > 0
  /\ qlen' = [qlen EXCEPT ![c] = @ - 1]
  /\ UNCHANGED <<clients, elapsed, rb, buildErrors, observed, burst, manual, quiet, hungUp, watching, missed, lastEvent>>
  /\ UNCHANGED <<bvars, tvars, pvars, cvars>>

\* the client of subscriber c closes its connection; nothing in
\* handleWebSocket waits for that, its loop goes on reading clientChan
Disconnect(c) ==
  /\ c \in clients
  /\ c \notin hungUp
  /\ hungUp' = hungUp \cup {c}
  /\ UNCHANGED <<clients, qlen, elapsed, rb, buildErrors, observed, burst, manual, quiet, watching, missed, lastEvent>>
  /\ UNCHANGED <<bvars, tvars, pvars, cvars>>

\* the Server when Start has built the site and started watchFiles:
\* lastBuild is the zero time
DInit ==
  /\ clients = {}
  /\ qlen = [c \in Subscribers |-> 0]
  /\ elapsed = Saturated
  /\ rb = [g \in Goroutines |-> NoRebuild]
  /\ buildErrors = <<>>
  /\ burst = [f \in Files |-> NoBurst]
  /\ manual = "free"
  /\ quiet = Saturated
  /\ hungUp = {}
  /\ watching = TRUE
  /\ missed = FALSE
  /\ lastEvent = NoEvent

DAtRest == DInit /\ observed = {}

\* ------------------------------------------------------------------------
\* The goroutines that share the Builder (internal/server, internal/builder)
\* ------------------------------------------------------------------------
\* the goroutines of watchFiles' rebuilds and of the /api/rebuild handler
Callers == 1..MaxCallers

\* a goroutine that is in no call on the Builder
Outside == [call |-> "none", at |-> "none"]

\* the stages of Build(), in its order: LoadTemplates, parseContentParallel,
\* generatePagesParallel, the asset copies
BuildStages == <<"templates", "parse", "render", "assets">>

\* the stages of an IncrementalBuild of content files: rebuildContentFile
\* parses the file, then generatePage renders it
ContentStages == <<"parse", "render">>

StagesOf(call) == IF call = "build" THEN BuildStages ELSE ContentStages

\* the stage after `at` in a sequence of stages, "none" after the last
After(stages, at) ==
  LET i == CHOOSE j \in 1..Len(stages) : stages[j] = at
  IN IF i = Len(stages) THEN "none" ELSE stages[i + 1]

\* the stages that add templates to the Engine's set, and those that read it
AddsTemplates(st) == st.call = "build" /\ st.at = "templates"
ReadsTemplates(st) == st.at = "render"

\* a goroutine enters s.builder.Build(): the /api/rebuild handler, buildSite,
\* or IncrementalBuild for a template or configuration file; no lock is taken
EnterBuild(c) ==
  /\ stage[c] = Outside
  /\ stage' = [stage EXCEPT ![c] = [call |-> "build", at |-> BuildStages[1]]]
  /\ UNCHANGED <<clientsMu, statsMu, lpc, todo, chans>>
  /\ UNCHANGED <<bvars, tvars, dvars, pvars>>

\* a rebuild goroutine of watchFiles enters IncrementalBuild for a content
\* file; no lock is taken
EnterRebuildContent(c) ==
  /\ stage[c] = Outside
  /\ stage' = [stage EXCEPT ![c] = [call |-> "content", at |-> ContentStages[1]]]
  /\ UNCHANGED <<clientsMu, statsMu, lpc, todo, chans>>
  /\ UNCHANGED <<bvars, tvars, dvars, pvars>>

\* the call of goroutine c gets through its stage; after the last one it returns
StageDone(c) ==
  /\ stage[c] # Outside
  /\ LET next == After(StagesOf(stage[c].call), stage[c].at) IN
       stage' = [stage EXCEPT ![c] = IF next = "none" THEN Outside
                                      ELSE [stage[c] EXCEPT !.at = next]]
  /\ UNCHANGED <<clientsMu, statsMu, lpc, todo, chans>>
  /\ UNCHANGED <<bvars, tvars, dvars, pvars>>

\* ------------------------------------------------------------------------
\* The Server's locks (internal/server): clientsMu and statsMu
\* ------------------------------------------------------------------------
\* the goroutines that take the locks: one handleWebSocket per subscriber,
\* one goroutine in buildSite and notifyClients, one in handleStats
SiteProc == "site"
StatsProc == "stats"
Procs == Subscribers \cup {SiteProc, StatsProc}

\* a sync.RWMutex nobody holds
Unlocked == [w |-> "none", r |-> {}]

\* Lock() returns when there is neither a writer nor a reader
CanLockIgnoresReaders(mu) == mu.w = "none"
CanLock(mu) == mu.w = "none" /\ mu.r = {}

\* RLock() returns when there is no writer
CanRLock(mu) == mu.w = "none"

Lock(mu, p) == [mu EXCEPT !.w = p]
Unlock(mu) == [mu EXCEPT !.w = "none"]

\* the readers after RLock() by p
RLockNotHeld(mu, p) == mu
RLock(mu, p) == [mu EXCEPT !.r = @ \cup {p}]
RUnlock(mu, p) == [mu EXCEPT !.r = @ \ {p}]

\* the critical sections that assign a field of s.stats: the two of
\* handleWebSocket (ClientCount) and the two of buildSite
WritesStats(p) ==
  \/ p \in Subscribers /\ lpc[p] \in {"insert", "remove"}
  \/ p = SiteProc /\ lpc[p] \in {"count", "record"}

\* handleWebSocket for subscriber c: make(chan string, 10), s.clientsMu.Lock()
WsLock(c) ==
  /\ lpc[c] = "off"
  /\ CanLock(clientsMu)
  /\ clientsMu' = Lock(clientsMu, c)
  /\ chans' = [chans EXCEPT ![c] = "open"]
  /\ qlen' = [qlen EXCEPT ![c] = 0]
  /\ lpc' = [lpc EXCEPT ![c] = "insert"]
  /\ UNCHANGED <<stage, statsMu, todo>>
  /\ UNCHANGED <<clients, elapsed, rb, buildErrors, observed, burst, manual, quiet, hungUp,
                 watching, missed, lastEvent>>
  /\ UNCHANGED <<bvars, tvars, pvars>>

\* s.clients[clientChan] = true; s.stats.ClientCount = len(s.clients);
\* s.clientsMu.Unlock()
WsRegister(c) ==
  /\ lpc[c] = "insert"
  /\ clients' = clients \cup {c}
  /\ clientsMu' = Unlock(clientsMu)
  /\ lpc' = [lpc EXCEPT ![c] = "serve"]
  /\ UNCHANGED <<stage, statsMu, todo, chans>>
  /\ UNCHANGED <<qlen, elapsed, rb, buildErrors, observed, burst, manual, quiet, hungUp,
                 watching, missed, lastEvent>>
  /\ UNCHANGED <<bvars, tvars, pvars>>

\* `for message := range clientChan` takes a message
WsConsume(c) ==
  /\ lpc[c] = "serve"
  /\ qlen[c] > 0
  /\ qlen' = [qlen EXCEPT ![c] = @ - 1]
  /\ UNCHANGED cvars
  /\ UNCHANGED <<clients, elapsed, rb, buildErrors, observed, burst, manual, quiet, hungUp,
                 watching, missed, lastEvent>>
  /\ UNCHANGED <<bvars, tvars, pvars>>

\* the handler's function ends (it returns or panics): its deferred
\* function starts
WsUnwind(c) ==
  /\ lpc[c] = "serve"
  /\ lpc' = [lpc EXCEPT ![c] = "leave"]
  /\ UNCHANGED <<stage, clientsMu, statsMu, todo, chans>>
  /\ UNCHANGED dvars
  /\ UNCHANGED <<bvars, tvars, pvars>>

\* the deferred function: s.clientsMu.Lock()
WsLockRemove(c) ==
  /\ lpc[c] = "leave"
  /\ CanLock(clientsMu)
  /\ clientsMu' = Lock(clientsMu, c)
  /\ lpc' = [lpc EXCEPT ![c] = "remove"]
  /\ UNCHANGED <<stage, statsMu, todo, chans>>
  /\ UNCHANGED dvars
  /\ UNCHANGED <<bvars, tvars, pvars>>

\* delete(s.clients, clientChan); s.stats.ClientCount = len(s.clients);
\* s.clientsMu.Unlock()
WsUnregister(c) ==
  /\ lpc[c] = "remove"
  /\ clients' = clients \ {c}
  /\ clientsMu' = Unlock(clientsMu)
  /\ lpc' = [lpc EXCEPT ![c] = "close"]
  /\ UNCHANGED <<stage, statsMu, todo, chans>>
  /\ UNCHANGED <<qlen, elapsed, rb, buildErrors, observed, burst, manual, quiet, hungUp,
                 watching, missed, lastEvent>>
  /\ UNCHANGED <<bvars, tvars, pvars>>

\* close(clientChan); the handler is over
WsClose(c) ==
  /\ lpc[c] = "close"
  /\ chans' = [chans EXCEPT ![c] = "closed"]
  /\ lpc' = [lpc EXCEPT ![c] = "off"]
  /\ UNCHANGED <<stage, clientsMu, statsMu, todo>>
  /\ UNCHANGED dvars
  /\ UNCHANGED <<bvars, tvars, pvars>>

\* buildSite: s.statsMu.Lock() before BuildCount++, and again after Build()
SiteLock ==
  /\ lpc[SiteProc] \in {"idle", "build"}
  /\ CanLock(statsMu)
  /\ statsMu' = Lock(statsMu, SiteProc)
  /\ lpc' = [lpc EXCEPT ![SiteProc] = IF lpc[SiteProc] = "idle" THEN "count" ELSE "record"]
  /\ UNCHANGED <<stage, clientsMu, todo, chans>>
  /\ UNCHANGED dvars
  /\ UNCHANGED <<bvars, tvars, pvars>>

\* the fields are assigned; s.statsMu.Unlock(). After the first section
\* comes Build(), after the second notifyClients
SiteUnlock ==
  /\ lpc[SiteProc] \in {"count", "record"}
  /\ statsMu' = Unlock(statsMu)
  /\ lpc' = [lpc EXCEPT ![SiteProc] = IF lpc[SiteProc] = "count" THEN "build" ELSE "notify"]
  /\ UNCHANGED <<stage, clientsMu, todo, chans>>
  /\ UNCHANGED dvars
  /\ UNCHANGED <<bvars, tvars, pvars>>

\* notifyClients: s.clientsMu.RLock(); the range starts over s.clients
NotifyRLock ==
  /\ lpc[SiteProc] = "notify"
  /\ CanRLock(clientsMu)
  /\ clientsMu' = RLock(clientsMu, SiteProc)
  /\ todo' = clients
  /\ lpc' = [lpc EXCEPT ![SiteProc] = "deliver"]
  /\ UNCHANGED <<stage, statsMu, chans>>
  /\ UNCHANGED dvars
  /\ UNCHANGED <<bvars, tvars, pvars>>

\* one turn of the range: the select on subscriber c's channel; a send on
\* a closed channel panics
NotifySend(c) ==
  /\ lpc[SiteProc] = "deliver"
  /\ c \in todo
  /\ todo' = todo \ {c}
  /\ IF chans[c] = "closed"
     THEN /\ lpc' = [lpc EXCEPT ![SiteProc] = "panic"]
          /\ UNCHANGED qlen
     ELSE /\ qlen' = [qlen EXCEPT ![c] = IF Send(@) = "sent" THEN @ + 1 ELSE @]
          /\ UNCHANGED lpc
  /\ UNCHANGED <<stage, clientsMu, statsMu, chans>>
  /\ UNCHANGED <<clients, elapsed, rb, buildErrors, observed, burst, manual, quiet, hungUp,
                 watching, missed, lastEvent>>
  /\ UNCHANGED <<bvars, tvars, pvars>>

\* the range is over, or the goroutine panicked: the deferred
\* s.clientsMu.RUnlock()
NotifyRUnlock ==
  /\ \/ lpc[SiteProc] = "deliver" /\ todo = {}
     \/ lpc[SiteProc] = "panic" /\ SiteProc \in clientsMu.r
  /\ clientsMu' = RUnlock(clientsMu, SiteProc)
  /\ todo' = {}
  /\ lpc' = [lpc EXCEPT ![SiteProc] = IF lpc[SiteProc] = "panic" THEN "panic" ELSE "idle"]
  /\ UNCHANGED <<stage, statsMu, chans>>
  /\ UNCHANGED dvars
  /\ UNCHANGED <<bvars, tvars, pvars>>

\* handleStats: s.statsMu.RLock(); stats := *s.stats
StatsRLock ==
  /\ lpc[StatsProc] = "idle"
  /\ CanRLock(statsMu)
  /\ statsMu' = RLock(statsMu, StatsProc)
  /\ lpc' = [lpc EXCEPT ![StatsProc] = "copy"]
  /\ UNCHANGED <<stage, clientsMu, todo, chans>>
  /\ UNCHANGED dvars
  /\ UNCHANGED <<bvars, tvars, pvars>>

\* s.statsMu.RUnlock()
StatsRUnlock ==
  /\ lpc[StatsProc] = "copy"
  /\ statsMu' = RUnlock(statsMu, StatsProc)
  /\ lpc' = [lpc EXCEPT ![StatsProc] = "idle"]
  /\ UNCHANGED <<stage, clientsMu, todo, chans>>
  /\ UNCHANGED dvars
  /\ UNCHANGED <<bvars, tvars, pvars>>

LAtRest ==
  /\ clientsMu = Unlocked
  /\ statsMu = Unlocked
  /\ lpc = [p \in Procs |-> IF p \in Subscribers THEN "off" ELSE "idle"]
  /\ todo = {}
  /\ chans = [c \in Subscribers |-> "none"]

CAtRest == stage = [c \in Callers |-> Outside] /\ LAtRest

\* ------------------------------------------------------------------------
\* The content Parser (internal/content): the reading-time estimate
\* ------------------------------------------------------------------------
\* Go's integer division, for operands that are not negative
Quo(a, b) == a \div b

\* calculateReadingTime
CalculateReadingTimeRoundsDown(words) ==
  LET minutes == Quo(words, 200)
  IN IF minutes < 1 THEN 1 ELSE minutes
CalculateReadingTime(words) ==
  LET minutes == Quo(words + 199, 200)
  IN IF minutes < 1 THEN 1 ELSE minutes

\* ParseFile has counted the words of a page (len(strings.Fields(...)))
CountWords(n) ==
  /\ wordCount' = n
  /\ readingTime' = 0
  /\ <<wordCount', readingTime'>> # <<wordCount, readingTime>>
  /\ UNCHANGED <<bvars, tvars, dvars, cvars>>

\* page.ReadingTime = p.calculateReadingTime(page.WordCount)
SetReadingTime ==
  /\ readingTime = 0
  /\ readingTime' = CalculateReadingTime(wordCount)
  /\ UNCHANGED wordCount
  /\ UNCHANGED <<bvars, tvars, dvars, cvars>>

PAtRest == wordCount = 0 /\ readingTime = 0

\* ------------------------------------------------------------------------
\* The Builder's specification
\* ------------------------------------------------------------------------
\* the Builder that builder.New returns, at rest
BStart ==
  /\ cache = [f \in Files |-> 0]
  /\ pages = <<>>
  /\ pc = "idle"
  /\ lastOp = [kind |-> "none", changed |-> <<>>]
  /\ lastErr = <<"none">>
  /\ fileChan = <<>> /\ resultChan = <<>> /\ errorChan = <<>>
  /\ ppc = [w \in Workers |-> "off"]
  /\ pcur = [w \in Workers |-> "a.md"]
  /\ pwait = "off"
  /\ acc = <<>>
  /\ pageChan = <<>> /\ rerrChan = <<>>
  /\ rpc = [w \in Workers |-> "off"]
  /\ rcur = [w \in Workers |-> 1]
  /\ rwait = "off"
  /\ enumerated = {} /\ parsed = {} /\ rendered = {} /\ touchedOut = {}
  /\ assets = NoCopy
  /\ fullRan = FALSE /\ copied = FALSE
  /\ failedAt = [f \in Files |-> 0]

\* a content tree not built yet, and the default buildDrafts and buildFuture
BInit ==
  /\ mtime = [f \in Files |-> 1]
  /\ kind \in [Files -> Kinds]
  /\ output = [f \in Files |-> NoOutput]
  /\ cleanBuild \in BOOLEAN
  /\ workers \in Workers
  /\ buildDrafts = FALSE
  /\ buildFuture = FALSE
  /\ BStart

\* what runs inside Build()
PipelineSteps ==
  \/ \E w \in Workers : WorkerRecv(w)
  \/ \E w \in Workers : WorkerParse(w)
  \/ \E w \in Workers : WorkerDone(w)
  \/ CloseResults
  \/ CloseErrors
  \/ CollectResults
  \/ CollectErrors
  \/ \E w \in Workers : PageRecv(w)
  \/ \E w \in Workers, how \in GenOutcomes : PageGenerate(w, how)
  \/ \E w \in Workers : PageDone(w)
  \/ CloseRenderErrors
  \/ CollectRenderErrors
  \/ CopyAssets
  \/ \E res \in {"missing", "copied", "failed"} : CopyStaticFiles(res)
  \/ \E ok \in BOOLEAN : CopyThemeAssets(ok)
  \/ CopyAwait
  \/ Return

\* Build() and what runs inside it
PipelineNext ==
  \/ \E how \in BuildOutcomes : Build(how)
  \/ PipelineSteps

IncrementalNext ==
  \/ IncrementalStaticError
  \/ IncrementalFull
  \/ IncrementalContent

vars == <<bvars, tvars, dvars, pvars, cvars>>

\* full builds of a content tree that is edited between them
Init == BInit /\ workers = NumWorkers /\ TAtRest /\ DAtRest /\ PAtRest /\ CAtRest

Next == PipelineNext \/ \E f \in Files, k \in Kinds : Touch(f, k)

Spec == Init /\ [][Next]_vars

\* full and incremental builds, with one worker per pool, of a content tree
\* that is not edited meanwhile (IncrementalBuild reads the files it is
\* handed whether they changed or not)
InitIncr == BInit /\ workers = 1 /\ TAtRest /\ DAtRest /\ PAtRest /\ CAtRest

NextIncr == PipelineNext \/ IncrementalNext

SpecIncr == InitIncr /\ [][NextIncr]_vars

\* full builds of a content tree that is never edited, by one Builder after
\* another, with one or more workers per pool; every Build is the first of
\* its Builder and starts on an empty cache
InitTwice == BInit /\ TAtRest /\ DAtRest /\ PAtRest /\ CAtRest

FirstBuild(how) == cache = [f \in Files |-> 0] /\ Build(how)

NextTwice ==
  \/ \E how \in BuildOutcomes : FirstBuild(how)
  \/ PipelineSteps
  \/ NewBuilder

SpecTwice == InitTwice /\ [][NextTwice]_vars

\* full builds by one Builder, one after another, with the goroutines of
\* the two stages scheduled fairly
FairStages ==
  /\ \A w \in Workers :
       /\ WF_vars(WorkerRecv(w))
       /\ WF_vars(WorkerParse(w))
       /\ WF_vars(WorkerDone(w))
       /\ WF_vars(PageRecv(w))
       /\ WF_vars(\E how \in GenOutcomes : PageGenerate(w, how))
       /\ WF_vars(PageDone(w))
  /\ WF_vars(CloseResults)
  /\ WF_vars(CloseErrors)
  /\ WF_vars(CollectResults)
  /\ WF_vars(CollectErrors)
  /\ WF_vars(CloseRenderErrors)
  /\ WF_vars(CollectRenderErrors)

SpecStages == InitTwice /\ [][PipelineNext]_vars /\ FairStages

\* full builds and incremental rebuilds of content files, with one worker
\* per pool and no clean build, of a content tree that is edited between
\* them; Build gets as far as its parse stage every time, and an edit
\* leaves a file of the kind it was
InitEdit == InitIncr /\ ~cleanBuild

NextEdit ==
  \/ Build("ok")
  \/ PipelineSteps
  \/ IncrementalContent
  \/ \E f \in Files : Touch(f, kind[f])

SpecEdit == InitEdit /\ [][NextEdit]_vars

\* full builds, with one worker per pool, of a content tree with drafts and
\* dated documents, under draft and future flags that change between builds
InitFilter ==
  /\ mtime = [f \in Files |-> 1]
  /\ kind \in [Files -> DocKinds]
  /\ output = [f \in Files |-> NoOutput]
  /\ cleanBuild \in BOOLEAN
  /\ workers = 1
  /\ buildDrafts \in BOOLEAN
  /\ buildFuture \in BOOLEAN
  /\ BStart
  /\ TAtRest
  /\ DAtRest
  /\ PAtRest
  /\ CAtRest

NextFilter == PipelineNext \/ \E drafts, future \in BOOLEAN : Configure(drafts, future)

SpecFilter == InitFilter /\ [][NextFilter]_vars

\* the Builder at rest, for the specifications of the other components
BAtRest ==
  /\ BInit
  /\ kind = [f \in Files |-> "ok"]
  /\ cleanBuild
  /\ workers = 1

\* the Engine: loads of the two layout directories and renders between them
InitTmpl == BAtRest /\ TInit /\ DAtRest /\ PAtRest /\ CAtRest

NextTmpl ==
  \/ \E failAt \in 0..Len(TemplateOrder), how \in FailHows : LoadThemeTemplates(failAt, how)
  \/ \E failAt \in 0..Len(TemplateOrder), how \in FailHows : LoadDefaultTemplates(failAt, how)
  \/ \E page \in TemplatePages : Render(page)

SpecTmpl == InitTmpl /\ [][NextTmpl]_vars

\* the watch loop and its rebuild goroutines
WatchSteps ==
  \/ \E d \in Delays : Advance(d)
  \/ \E name \in EventNames, op \in EventOps : WatchIgnored(name, op)
  \/ \E name \in EventNames : WatchDebounced(name)
  \/ \E name \in EventNames, g \in Goroutines : WatchTrigger(name, g)
  \/ \E g \in Goroutines, ok \in BOOLEAN : IncrementalReturns(g, ok)
  \/ \E g \in Goroutines : NotifyReload(g)
  \/ \E g \in Goroutines : BuildSiteNotifies(g)
  \/ \E g \in Goroutines : RebuildExits(g)

\* the watch loop with every failing Build() returning the same error
WatchNext ==
  \/ WatchSteps
  \/ \E g \in Goroutines, res \in {"ok", TemplatesError} : BuildSiteBuilds(g, res)

\* the Server with its live-reload subscribers
InitDev == BAtRest /\ TAtRest /\ PAtRest /\ CAtRest /\ DInit /\ observed = {}

NextDev ==
  \/ WatchNext
  \/ \E c \in Subscribers : Connect(c)
  \/ \E c \in Subscribers : Consume(c)

SpecDev == InitDev /\ [][NextDev]_vars

\* the watch loop and the manual rebuild requests
NextRebuild == WatchNext \/ HandleRebuild \/ HandleRebuildReturns

SpecRebuild == InitDev /\ [][NextRebuild]_vars

\* the Server with subscribers whose clients come and go, while every
\* rebuild succeeds; the goroutines of the rebuilds and of the subscribers'
\* handlers are scheduled fairly
NextConn ==
  \/ \E d \in Delays : Advance(d)
  \/ \E name \in EventNames, g \in Goroutines : WatchTrigger(name, g)
  \/ \E g \in Goroutines : IncrementalReturns(g, TRUE)
  \/ \E g \in Goroutines : NotifyReload(g)
  \/ \E g \in Goroutines : RebuildExits(g)
  \/ \E c \in Subscribers : Connect(c)
  \/ \E c \in Subscribers : Consume(c)
  \/ \E c \in Subscribers : Disconnect(c)

FairConn ==
  /\ \A c \in Subscribers : WF_vars(Consume(c))
  /\ \A g \in Goroutines :
       /\ WF_vars(IncrementalReturns(g, TRUE))
       /\ WF_vars(NotifyReload(g))
       /\ WF_vars(RebuildExits(g))

SpecConn == InitDev /\ [][NextConn]_vars /\ FairConn

\* the calls on one Builder by the goroutines of the Server
InitShared == BAtRest /\ TAtRest /\ DAtRest /\ PAtRest /\ CAtRest

NextShared ==
  \/ \E c \in Callers : EnterBuild(c)
  \/ \E c \in Callers : EnterRebuildContent(c)
  \/ \E c \in Callers : StageDone(c)

SpecShared == InitShared /\ [][NextShared]_vars

\* the goroutines that take the Server's locks
InitLocks == BAtRest /\ TAtRest /\ DAtRest /\ PAtRest /\ CAtRest

NextLocks ==
  \/ \E c \in Subscribers : WsLock(c)
  \/ \E c \in Subscribers : WsRegister(c)
  \/ \E c \in Subscribers : WsConsume(c)
  \/ \E c \in Subscribers : WsUnwind(c)
  \/ \E c \in Subscribers : WsLockRemove(c)
  \/ \E c \in Subscribers : WsUnregister(c)
  \/ \E c \in Subscribers : WsClose(c)
  \/ SiteLock
  \/ SiteUnlock
  \/ NotifyRLock
  \/ \E c \in Subscribers : NotifySend(c)
  \/ NotifyRUnlock
  \/ StatsRLock
  \/ StatsRUnlock

SpecLocks == InitLocks /\ [][NextLocks]_vars

\* the Parser's reading-time estimate, for every word count up to MaxWords
InitRead == BAtRest /\ TAtRest /\ DAtRest /\ PAtRest /\ CAtRest

NextRead == SetReadingTime \/ \E n \in 0..MaxWords : CountWords(n)

SpecRead == InitRead /\ [][NextRead]_vars

\* the Engine of one Builder over several builds, with template files
\* edited between them
InitReload ==
  /\ InitTmpl
  /\ themeFiles \subseteq {DefaultSingle}
  /\ defaultFiles \subseteq {DefaultSingle, DefaultBaseof}

NextReload ==
  \/ \E failAt \in 0..Len(TemplateOrder), how \in FailHows : LoadThemeTemplates(failAt, how)
  \/ \E failAt \in 0..Len(TemplateOrder), how \in FailHows : LoadDefaultTemplates(failAt, how)
  \/ \E k \in TemplateFiles : EditTemplate(k[1], k[2])

SpecReload == InitReload /\ [][NextReload]_vars

\* the watch loop when every IncrementalBuild fails and the rebuild falls
\* back on buildSite, with Build() failing in more than one way
NextHistory ==
  \/ \E d \in Delays : Advance(d)
  \/ \E name \in Files, g \in Goroutines : WatchTrigger(name, g)
  \/ \E g \in Goroutines : IncrementalReturns(g, FALSE)
  \/ \E g \in Goroutines, res \in BuildResults : BuildSiteBuilds(g, res)
  \/ \E g \in Goroutines : BuildSiteNotifies(g)
  \/ \E g \in Goroutines : RebuildExits(g)

SpecHistory == InitDev /\ [][NextHistory]_vars

\* the watch loop alone, with the bursts of write events recorded
InitWatch == BAtRest /\ TAtRest /\ PAtRest /\ CAtRest /\ DInit /\ observed = Files

SpecWatch == InitWatch /\ [][WatchNext]_vars

\* the watch loop while every rebuild succeeds: time passes and the rebuild
\* goroutines are scheduled, but a file is written only when someone writes it
NextDebounce ==
  \/ \E d \in Delays : Advance(d)
  \/ \E name \in EventNames, op \in EventOps : WatchIgnored(name, op)
  \/ \E name \in EventNames : WatchDebounced(name)
  \/ \E name \in EventNames, g \in Goroutines : WatchTrigger(name, g)
  \/ \E g \in Goroutines : IncrementalReturns(g, TRUE)
  \/ \E g \in Goroutines : NotifyReload(g)
  \/ \E g \in Goroutines : RebuildExits(g)

FairDebounce ==
  /\ WF_vars(\E d \in Delays : Advance(d))
  /\ \A g \in Goroutines :
       /\ WF_vars(IncrementalReturns(g, TRUE))
       /\ WF_vars(NotifyReload(g))
       /\ WF_vars(RebuildExits(g))

SpecDebounce == InitWatch /\ [][NextDebounce]_vars /\ FairDebounce

\* the same loop with the event it received last on record
InitEvents ==
  BAtRest /\ TAtRest /\ PAtRest /\ CAtRest /\ DInit /\ observed = EventNames

SpecEvents == InitEvents /\ [][NextDebounce]_vars

\* ------------------------------------------------------------------------
\* Properties of Build (Spec)
\* ------------------------------------------------------------------------
\* the documents of b.pages, the context every render of a Build gets
PagePaths == {pages[i].path : i \in 1..Len(pages)}

RenderActive == \E w \in Workers : rpc[w] # "off"

\* C1: whenever a page worker is about to render a page, in the first Build
\* or a later one, the context it hands to the template is the complete set
\* of documents that should be built, not only the ones that changed.
C1_CompleteContext ==
  \A w \in Workers : rpc[w] = "gen" => PagePaths = Buildable

\* C2: the render stage is not started (no page worker exists) until every
\* parse worker has ended, both parse channels are closed, and b.pages holds
\* exactly the pages the workers produced.
C2_ParseBarrier ==
  RenderActive =>
    /\ AllWorkersDone
    /\ fileChan = <<>>
    /\ enumerated # {} =>
         /\ pwait = "closed"
         /\ parsed = enumerated
         /\ RenderContext(pages) = RenderContext(resultChan)

C2_Witness ==
  /\ \E w \in Workers : rpc[w] = "gen"
  /\ enumerated = Files
  /\ Len(resultChan) = 2
  /\ \A w \in Workers : ppc[w] = "done"

\* C10: when a file fails to parse, the workers still take every file the
\* walk selected; Build returns the first parse error the collector received,
\* only after all the workers have ended; and no page is rendered.
C10_ParseErrors ==
  /\ errorChan # <<>> => ~RenderActive /\ rendered = {} /\ pc \in {"parse", "collectErr", "done"}
  /\ (pc = "done" /\ lastErr[1] = "parse" /\ fullRan) =>
       /\ parsed = enumerated
       /\ AllWorkersDone
       /\ pwait = "closed"
       /\ lastErr = <<"parse", errorChan[1]>>
       /\ kind[errorChan[1]] = "bad"
  /\ (pc = "done" /\ fullRan /\ \E f \in parsed : kind[f] = "bad") => lastErr[1] = "parse"

C10_Witness ==
  /\ pc = "done"
  /\ lastErr[1] = "parse"
  /\ enumerated = Files
  /\ Len(errorChan) = 1
  /\ Len(resultChan) = 1
  /\ parsed = Files

\* the output file a successful generatePage leaves for page i of b.pages
WholeOutput(i) == [ver |-> pages[i].ver, ctx |-> RenderContext(pages), whole |-> TRUE]

\* C11: when Build has returned a render error, every page of b.pages was
\* handed to generatePage, every page worker has ended, the error returned is
\* the first one collected, and every page whose render did not fail has its
\* whole output file on disk (nothing was rolled back).
C11_RenderErrors ==
  (pc = "done" /\ fullRan /\ lastErr[1] = "render") =>
    /\ rendered = PagePaths
    /\ pageChan = <<>>
    /\ \A w \in Workers : rpc[w] \in {"off", "done"}
    /\ rwait = "closed"
    /\ lastErr = <<"render", rerrChan[1]>>
    /\ \A i \in 1..Len(pages) :
         pages[i].path \notin Range(rerrChan) => output[pages[i].path] = WholeOutput(i)

C11_Witness ==
  /\ pc = "done"
  /\ fullRan
  /\ lastErr = <<"render", "a.md">>
  /\ Len(pages) = 2
  /\ Len(rerrChan) = 1
  /\ output["blog/b.md"].whole
  /\ output["blog/b.md"].ver = mtime["blog/b.md"]

\* C12: a Build that returns the error of LoadTemplates has checked no file
\* against the modification cache and has parsed and rendered none; the step
\* that returns it leaves the cache and b.pages as they were.
C12_TemplateErrorAborts ==
  /\ []((pc = "done" /\ fullRan /\ lastErr = <<"templates">>) =>
          /\ enumerated = {}
          /\ parsed = {}
          /\ rendered = {}
          /\ ~RenderActive
          /\ \A w \in Workers : ppc[w] = "off")
  /\ [][(pc = "idle" /\ lastErr' = <<"templates">>) =>
          /\ pc' = "done"
          /\ cache' = cache
          /\ pages' = pages]_vars

\* the template load fails in a Build that has files to parse and a document
\* set and a cache from an earlier Build
C12_Witness ==
  /\ pc = "done"
  /\ fullRan
  /\ lastErr = <<"templates">>
  /\ Len(pages) = 2
  /\ cache["blog/b.md"] = 1
  /\ mtime["a.md"] > cache["a.md"]

\* C13: a Build selects a file whose parse failed in an earlier Build of the
\* same Builder only if the file's modification time is now strictly later
\* than it was when that parse failed.
C13_NoRetryUntilTouched ==
  [][\A f \in Files :
       (pc = "idle" /\ f \in enumerated' /\ failedAt[f] # 0) => mtime[f] > failedAt[f]]_vars

\* a Build has run to its end without selecting a file that is still as it
\* was when its parse failed
C13_Witness ==
  /\ pc = "done"
  /\ fullRan
  /\ lastErr = <<"none">>
  /\ kind["a.md"] = "bad"
  /\ failedAt["a.md"] = mtime["a.md"]
  /\ "a.md" \notin enumerated
  /\ "blog/b.md" \in enumerated

\* the file has no cache entry, or is strictly newer than its entry
NewerThanCache(f) == cache[f] = 0 \/ mtime[f] > cache[f]

\* C14: the walk of a Build selects a file only if it has no cache entry or
\* its modification time is strictly later than the entry, and every such
\* file when the walk runs to its end; the entry of a selected file is set to
\* the file's modification time in the same step, before any file is parsed;
\* the entry of a file not selected stays as it was; and no later step of
\* the Build changes the cache.
C14_ChangedIffNewer ==
  /\ [][pc = "idle" =>
          /\ \A f \in enumerated' :
               NewerThanCache(f) /\ cache'[f] = mtime[f] /\ f \notin parsed'
          /\ \A f \in Files \ enumerated' : cache'[f] = cache[f]
          /\ pc' \in {"parse", "render", "copy"} =>
               enumerated' = {f \in Files : NewerThanCache(f)}]_vars
  /\ [][pc # "idle" => cache' = cache]_vars

\* the walk of a second Build has selected the file that was edited and not
\* the one that was not, and nothing is parsed yet
C14_Witness ==
  /\ pc = "parse"
  /\ enumerated = {"a.md"}
  /\ parsed = {}
  /\ cache["a.md"] = mtime["a.md"]
  /\ mtime["a.md"] > mtime["blog/b.md"]
  /\ cache["blog/b.md"] = mtime["blog/b.md"]

\* ------------------------------------------------------------------------
\* Properties of the build filter (SpecFilter)
\* ------------------------------------------------------------------------
\* a Build has returned nil
BuildSucceeded == pc = "done" /\ fullRan /\ lastErr = <<"none">>

\* C15: when a Build has succeeded, a draft document is in the document set
\* and has its output file written from its current content if
\* draft-inclusion is on, and is neither in the document set nor rendered by
\* that Build if draft-inclusion is off, whatever the flag was in the builds
\* before and whether or not the file was edited since.
C15_DraftToggle ==
  BuildSucceeded =>
    \A f \in Files :
      kind[f] = "draft" =>
        IF buildDrafts
        THEN f \in PagePaths /\ output[f].whole /\ output[f].ver = mtime[f]
        ELSE f \notin PagePaths /\ f \notin rendered

\* what the filter is to exclude: a draft while draft-inclusion is off, a
\* document to be published later while future-inclusion is off, a document
\* whose expiry date has passed
Excluded(f) ==
  \/ kind[f] \in {"draft", "draftFuture"} /\ ~buildDrafts
  \/ kind[f] \in {"future", "draftFuture"} /\ ~buildFuture
  \/ kind[f] = "expired"

IsIncremental == lastOp.kind = "incremental"

HasTemplateOrConfig(changed) ==
  \E i \in 1..Len(changed) : changed[i] \in {TemplatePath, ConfigPath}

OnlyContent(changed) == \A i \in 1..Len(changed) : changed[i] \in Files

\* C3: IncrementalBuild handed one changed content file parses that file
\* only, never enters Build, and leaves every other output file, b.pages and
\* the modification cache as they were.
C3_RebuildsOnlyChanged ==
  /\ [](\A f \in Files :
         (IsIncremental /\ lastOp.changed = <<f>>) =>
            /\ ~fullRan
            /\ parsed \subseteq {f}
            /\ rendered \subseteq {f}
            /\ enumerated = {})
  /\ [][\A f \in Files :
          (lastOp'.kind = "incremental" /\ lastOp'.changed = <<f>>) =>
             /\ \A g \in Files \ {f} : output'[g] = output[g]
             /\ pages' = pages
             /\ cache' = cache]_vars

C3_Witness ==
  /\ pc = "done"
  /\ IsIncremental
  /\ lastOp.changed = <<"a.md">>
  /\ lastErr = <<"none">>
  /\ rendered = {"a.md"}
  /\ output["a.md"].whole
  /\ output["blog/b.md"].whole

\* C7 as stated: a finished IncrementalBuild has run a full Build exactly
\* when its list held a template or a configuration file, and never when
\* the list held content files only.
C7_FullRebuildAlways ==
  (pc = "done" /\ IsIncremental) =>
    /\ HasTemplateOrConfig(lastOp.changed) => fullRan
    /\ OnlyContent(lastOp.changed) => ~fullRan

\* C7: a finished IncrementalBuild whose list held a template or a
\* configuration file has run a full Build, whatever else the list held,
\* unless the asset copy run for a static file of the list failed: then it
\* returned that error and did not run Build. With content files only in the
\* list it never runs a full Build.
C7_FullRebuildUnlessStaticError ==
  (pc = "done" /\ IsIncremental) =>
    /\ (HasTemplateOrConfig(lastOp.changed) /\ lastErr # <<"static">>) => fullRan
    /\ lastErr = <<"static">> =>
         ~fullRan /\ copied /\ \E i \in 1..Len(lastOp.changed) : lastOp.changed[i] = StaticPath
    /\ OnlyContent(lastOp.changed) => ~fullRan

C7_Witness ==
  /\ pc = "done"
  /\ IsIncremental
  /\ lastOp.changed = <<"a.md", ConfigPath>>
  /\ fullRan
  /\ rendered # {}

\* ------------------------------------------------------------------------
\* Properties of the template Engine (SpecTmpl)
\* ------------------------------------------------------------------------
Exists(name) == Lookup(templates, name)

FirstSegmentSingle == <<selPage.slug[1], "single">>

ByLayout == selPage.layout.ok /\ Exists(selPage.layout.name)

\* C9 as stated: the template chosen for a page is the one its layout
\* parameter names if that is in the set; else <first segment of the
\* slug>/single if that is in the set; else _default/baseof if that is in the
\* set; else _default/single.
C9_SelectionPriority ==
  selPage # NoPage =>
    /\ ByLayout => selected = selPage.layout.name
    /\ (~ByLayout /\ Exists(FirstSegmentSingle)) => selected = FirstSegmentSingle
    /\ (~ByLayout /\ ~Exists(FirstSegmentSingle) /\ Exists(DefaultBaseof)) =>
         selected = DefaultBaseof
    /\ (~ByLayout /\ ~Exists(FirstSegmentSingle) /\ ~Exists(DefaultBaseof)) =>
         selected = DefaultSingle

\* the <first segment>/single rule applies: the slug has a second segment
BySection == Len(selPage.slug) >= 2 /\ Exists(FirstSegmentSingle)

\* C9: the template chosen for a page is the one its layout parameter names
\* if that is in the set; else, for a slug of two or more segments only,
\* <first segment>/single if that is in the set; else _default/baseof if
\* that is in the set; else _default/single.
C9_SelectionPrioritySection ==
  selPage # NoPage =>
    /\ ByLayout => selected = selPage.layout.name
    /\ (~ByLayout /\ BySection) => selected = FirstSegmentSingle
    /\ (~ByLayout /\ ~BySection /\ Exists(DefaultBaseof)) => selected = DefaultBaseof
    /\ (~ByLayout /\ ~BySection /\ ~Exists(DefaultBaseof)) => selected = DefaultSingle

C9_Witness ==
  /\ selPage.slug = <<"about">>
  /\ ~ByLayout
  /\ Exists(<<"about", "single">>)
  /\ Exists(DefaultBaseof)
  /\ selected = DefaultBaseof

\* ------------------------------------------------------------------------
\* Properties of the development Server (SpecWatch, SpecDev)
\* ------------------------------------------------------------------------
\* C4: the write events for one file that fall within one window of 300 ms
\* (a burst, however many events it has) start exactly one rebuild by the
\* time the window ends, and a rebuild that was started has made exactly one
\* broadcast when it is over.
C4_OneRebuildPerBurst ==
  /\ [][\A f \in Files :
          (burst[f].age <= DebounceTime /\ burst'[f].age > DebounceTime) =>
             burst[f].starts = 1]_vars
  /\ [](\A g \in Goroutines : rb[g].pc = "done" => Len(rb[g].casts) = 1)

\* the rebuild of goroutine g is over and it succeeded: IncrementalBuild
\* did, or the buildSite run in its place did
Succeeded(g) == rb[g].incr = "ok" \/ rb[g].full = "ok"

\* what a rebuild that is over has broadcast: one message, by its outcome
OneSignal(g) ==
  rb[g].pc = "done" =>
    rb[g].casts = <<IF Succeeded(g) THEN "reload" ELSE "error">>

\* goroutine g takes its notifyClients step
Notifies(g) == rb[g].pc \in {"reload", "notify"} /\ rb'[g].pc = "done"

C6_FallbackToFullBuild ==
  /\ [][\A g \in Goroutines :
          (rb[g].pc = "incr" /\ rb'[g].incr = "err") =>
             /\ rb'[g].pc = "fallback"
             /\ rb'[g].casts = <<>>
             /\ qlen' = qlen]_vars
  /\ [](\A g \in Goroutines :
          (rb[g].pc = "done" /\ rb[g].incr = "err") =>
             /\ rb[g].full # "none"
             /\ rb[g].casts = <<IF rb[g].full = "ok" THEN "reload" ELSE "error">>)

C6_Witness ==
  \E g \in Goroutines :
    /\ rb[g].pc = "done"
    /\ rb[g].incr = "err"
    /\ rb[g].full = "ok"
    /\ rb[g].casts = <<"reload">>
    /\ clients # {}

\* the builds in flight on the Server's Builder: the rebuild goroutines
\* inside IncrementalBuild or inside the Build of buildSite, and the handler
\* of /api/rebuild inside Build
InFlight ==
  Cardinality({g \in Goroutines : rb[g].pc \in {"incr", "fallback"}})
    + (IF manual = "building" THEN 1 ELSE 0)

\* C17: at most one Build or IncrementalBuild is in flight on the Server's
\* Builder at any time.
C17_OneBuildInFlight == InFlight <= 1

\* a goroutine stands at a call of notifyClients
AtNotify(g) == rb[g].pc \in {"reload", "notify"}

\* C18: a broadcast never blocks on a subscriber: whatever the queues hold,
\* a goroutine at notifyClients can complete the call; and the call leaves a
\* full queue as it was (the message is dropped for that subscriber) while
\* it queues the message for the others.
C18_BroadcastNeverBlocks ==
  /\ [](\A g \in Goroutines :
          AtNotify(g) => ENABLED (NotifyReload(g) \/ BuildSiteNotifies(g)))
  /\ [][\A g \in Goroutines :
          (AtNotify(g) /\ rb'[g].pc = "done") =>
             \A c \in clients :
                /\ qlen[c] = ClientChanCap => qlen'[c] = ClientChanCap
                /\ qlen[c] < ClientChanCap => qlen'[c] = qlen[c] + 1]_vars

\* a broadcast has completed with the queues of all subscribers full
C18_Witness ==
  /\ clients = Subscribers
  /\ \A c \in Subscribers : qlen[c] = ClientChanCap
  /\ \E g \in Goroutines :
       rb[g].pc = "done" /\ rb[g].incr = "ok" /\ rb[g].casts = <<"reload">>

\* worker w completes generatePage on the document it holds and assigns its
\* OutputPath (a failed generatePage sends to the error channel instead)
WritesOutputPath(w) ==
  rpc[w] = "gen" /\ rpc'[w] = "recv" /\ rerrChan' = rerrChan

\* C19: over any sequence of builds a document's OutputPath is assigned once:
\* a worker that assigns it holds a document whose OutputPath is not yet
\* set; and no two workers hold the same document at the same time.
C19_OutputPathWrittenOnce ==
  /\ [][\A w \in Workers : WritesOutputPath(w) => ~pages[rcur[w]].out]_vars
  /\ [](\A w, v \in Workers :
          (w # v /\ rpc[w] = "gen" /\ rpc[v] = "gen") => rcur[w] # rcur[v])

\* watchFiles starts a rebuild goroutine
Triggers == \E g \in Goroutines : rb[g].pc = "free" /\ rb'[g].pc = "incr"

\* C20: the debounce window runs from the last write event: a rebuild is
\* started only when more than 300 ms have passed since the last rebuild was
\* started (at most one per window), and only when more than 300 ms have
\* passed since the last write event before this one (an event inside the
\* window restarts it).
C20_WindowFromLastEvent ==
  /\ [][Triggers => elapsed > DebounceTime]_vars
  /\ [][Triggers => quiet > DebounceTime]_vars

\* ------------------------------------------------------------------------
\* Further properties of IncrementalBuild (SpecIncr)
\* ------------------------------------------------------------------------
\* every path of the list lies in the static tree
OnlyStatic(changed) == \A i \in 1..Len(changed) : InStaticDir(changed[i])

\* C21: IncrementalBuild handed files of the static tree only runs the asset
\* copy and nothing else: it parses no content file, renders no document and
\* does not enter Build.
C21_StaticCopyOnly ==
  [][(pc = "idle" /\ lastOp'.kind = "incremental" /\ OnlyStatic(lastOp'.changed)) =>
        /\ copied'
        /\ parsed' = {}
        /\ rendered' = {}
        /\ ~fullRan'
        /\ pc' = "done"]_vars

\* ------------------------------------------------------------------------
\* Properties of the build-error history (SpecHistory)
\* ------------------------------------------------------------------------
\* the fallback buildSite of goroutine g returns an error
FullBuildFails(g) == rb[g].pc = "fallback" /\ rb'[g].full \notin {"none", "ok"}

\* C22: when the full build of a rebuild fails, its message becomes the last
\* entry of the build-error history; the entries before it are the earlier
\* history in its order, without its oldest entry when it already held 10;
\* and the history never holds more than 10 entries.
C22_BoundedErrorHistory ==
  /\ [](Len(buildErrors) <= ErrorHistoryCap)
  /\ [][\A g \in Goroutines : FullBuildFails(g) =>
          LET n == Len(buildErrors')
              before == IF Len(buildErrors) < ErrorHistoryCap
                        THEN buildErrors ELSE Tail(buildErrors)
          IN /\ n >= 1
             /\ buildErrors'[n] = rb'[g].full
             /\ SubSeq(buildErrors', 1, n - 1) = before]_vars

\* the history is full, holds both messages, and the last failure has moved
\* the entries up by one
C22_Witness ==
  /\ Len(buildErrors) = ErrorHistoryCap
  /\ buildErrors[1] = ContentError
  /\ buildErrors[2] = TemplatesError
  /\ buildErrors[ErrorHistoryCap] = ContentError
  /\ buildErrors[ErrorHistoryCap - 1] = TemplatesError
  /\ \E g \in Goroutines : rb[g].pc = "notify" /\ rb[g].full = ContentError

\* ------------------------------------------------------------------------
\* Properties of the subscriber registry (SpecConn)
\* ------------------------------------------------------------------------
\* C23: a subscriber is in the registry from the moment it connects, and
\* once its client has disconnected its handler eventually takes its channel
\* out of the registry.
C23_RemovedAfterDisconnect ==
  \A c \in Subscribers : (c \in clients /\ c \in hungUp) ~> (c \notin clients)

\* ------------------------------------------------------------------------
\* Properties of the asset copy (Spec)
\* ------------------------------------------------------------------------
\* C24: a Build that has returned nil has seen both copies end without
\* error, the static copy having copied the tree or found no static
\* directory; and a static copy that finds no static directory sends nil and
\* writes nothing.
C24_SuccessAfterBothCopies ==
  /\ []((pc = "done" /\ fullRan /\ lastErr = <<"none">>) =>
          /\ assets.static \in {"copied", "missing"}
          /\ assets.theme = "copied"
          /\ assets.got = 2)
  /\ [][(assets.static = "run" /\ assets'.static = "missing") =>
          /\ assets'.errChan = Append(assets.errChan, "nil")
          /\ output' = output]_vars

C24_Witness ==
  /\ pc = "done"
  /\ fullRan
  /\ lastErr = <<"none">>
  /\ assets.static = "missing"
  /\ assets.theme = "copied"

\* ------------------------------------------------------------------------
\* Properties of repeated builds of the same content (SpecTwice)
\* ------------------------------------------------------------------------
\* C25: builds of the same unchanged content write the same output for
\* every document, whatever the scheduling of the workers: a build that
\* writes a document's output file over the complete file an earlier build
\* left writes the same content.
C25_SameOutput ==
  [][\A f \in Files :
       (output[f].whole /\ output'[f].whole) => output'[f] = output[f]]_vars

\* ------------------------------------------------------------------------
\* Further properties of the template Engine (SpecTmpl)
\* ------------------------------------------------------------------------
\* none of the names getTemplateName tries for the page is in the set
NoCandidate ==
  /\ ~(selPage.layout.ok /\ Exists(selPage.layout.name))
  /\ ~(Len(selPage.slug) >= 2 /\ Exists(FirstSegmentSingle))
  /\ ~Exists(DefaultBaseof)
  /\ ~Exists(DefaultSingle)

\* C26: when none of the candidate templates of a page is in the set, the
\* render of the page fails with the template-not-found error, no output
\* file is written for it and its OutputPath stays unset.
C26_TemplateNotFound ==
  (selPage # NoPage /\ NoCandidate) =>
    /\ generated.err = "notFound"
    /\ ~generated.wrote
    /\ ~generated.outputPath

C26_Witness ==
  /\ selPage.slug = <<"blog", "post">>
  /\ selPage.layout.ok
  /\ NoCandidate
  /\ Exists(<<"about", "single">>)
  /\ generated.err = "notFound"

\* ------------------------------------------------------------------------
\* Further properties of the watch loop (SpecDev)
\* ------------------------------------------------------------------------
\* C27: a rebuild whose IncrementalBuild and fallback buildSite both fail
\* leaves the watch loop running: after it, a write event that arrives more
\* than 300 ms after the last start of a rebuild still starts one.
C27_LoopSurvivesFailure ==
  /\ [][\A g \in Goroutines : FullBuildFails(g) => watching']_vars
  /\ [](\A name \in Files :
          (buildErrors # <<>> /\ DebouncePassed(elapsed)
             /\ \E g \in Goroutines : rb[g].pc = "free") =>
          ENABLED (\E g \in Goroutines : WatchTrigger(name, g)))

\* a rebuild is running that was started after an earlier one had failed
C27_Witness ==
  /\ buildErrors # <<>>
  /\ \E g \in Goroutines : rb[g].pc = "incr"
  /\ clients # {}

\* ------------------------------------------------------------------------
\* Properties of the reading-time estimate (SpecRead)
\* ------------------------------------------------------------------------
\* the least number of whole 200-word minutes that hold w words
CeilMinutes(w) ==
  CHOOSE m \in 0..(w + 1) : 200 * m >= w /\ \A k \in 0..(w + 1) : 200 * k >= w => m <= k

\* C28: the reading time set for a page of w words is ceil(w / 200)
\* minutes, and 1 minute when that is less than 1.
C28_ReadingTime ==
  readingTime # 0 =>
    readingTime = (IF CeilMinutes(wordCount) < 1 THEN 1 ELSE CeilMinutes(wordCount))

C28_Witness == wordCount = 201 /\ readingTime = 2

\* ------------------------------------------------------------------------
\* Properties of the template set over several builds (SpecReload)
\* ------------------------------------------------------------------------
\* the file a name is resolved from: the theme's when the theme has its own
\* layout directory with that file, else the default directory's
ResolvedFrom(n) ==
  IF themeLayoutDir # LayoutDir /\ n \in themeFiles THEN "theme" ELSE "default"

\* a template file that was changed and is the one its name is resolved from
Changed(n) ==
  /\ n \in themeFiles \cup defaultFiles
  /\ fileVer[<<ResolvedFrom(n), n>>] > 1

\* C29: when the LoadTemplates of a full Build returns nil, the template of
\* every name whose default-layout or theme file was changed before that
\* Build is the changed file's text.
C29_TemplatesFresh ==
  [][(tpc = "defaults" /\ tpc' = "loaded") =>
       \A n \in TemplateNames :
          Changed(n) => setVer'[n] = fileVer[<<ResolvedFrom(n), n>>]]_vars

\* ------------------------------------------------------------------------
\* Properties of clean builds (Spec)
\* ------------------------------------------------------------------------
\* C30: with clean-build on, when a full Build has returned nil, whatever
\* builds and content changes came before it on the same Builder, every
\* document that should be built has an output file.
C30_CleanBuildComplete ==
  (pc = "done" /\ fullRan /\ lastErr = <<"none">> /\ cleanBuild) =>
     \A f \in Buildable : output[f] # NoOutput

\* ------------------------------------------------------------------------
\* Properties of the debounce over time (SpecDebounce)
\* ------------------------------------------------------------------------
\* C31: a write event for a path that is not ignored is always followed,
\* sooner or later, by the start of a rebuild that is not earlier than the
\* event, also when the event came within 300 ms of the last start.
C31_NoChangeLost == missed ~> ~missed

\* ------------------------------------------------------------------------
\* Properties of the goroutines that share the Builder (SpecShared)
\* ------------------------------------------------------------------------
\* C32: no goroutine is adding templates to the set while another call on
\* the Builder is in its render stage (within one Build the additions come
\* before the render stage by the order of its stages).
C32_SetNotWrittenWhileRead ==
  \A c, d \in Callers :
     (c # d /\ ReadsTemplates(stage[d])) => ~AddsTemplates(stage[c])

\* ------------------------------------------------------------------------
\* Properties of the Server's locks (SpecLocks)
\* ------------------------------------------------------------------------
\* C33: a goroutine that is assigning a field of the BuildStats holds the
\* stats lock for writing, so it never runs together with a reader that
\* holds the stats lock.
C33_StatsWrittenUnderStatsLock ==
  \A p \in Procs : WritesStats(p) => statsMu.w = p

\* notifyClients is inside its range over the subscribers
Delivering == lpc[SiteProc] = "deliver"

Deletes(c) == c \in clients /\ c \notin clients'

\* C35: notifyClients never sends on a closed channel: a channel that is
\* closed is no longer in the registry, the channels a delivery has yet to
\* visit are open, and no channel is deleted while a delivery is going on.
C35_NoSendOnClosedChannel ==
  /\ [](/\ lpc[SiteProc] # "panic"
        /\ \A c \in clients : chans[c] = "open"
        /\ \A c \in todo : chans[c] = "open")
  /\ [][\A c \in Subscribers : Deletes(c) => ~Delivering]_vars

C35_Witness ==
  /\ Delivering
  /\ chans["c1"] = "closed"
  /\ "c1" \notin clients
  /\ todo = {"c2"}
  /\ lpc["c2"] = "leave"

\* ------------------------------------------------------------------------
\* Termination of the two stages (SpecStages)
\* ------------------------------------------------------------------------
InParse == pc \in {"parse", "collectErr"}
InRender == pc = "render"

\* C36: the parse stage and the render stage come to an end, whatever the
\* number of files and of workers: no worker stays for ever at a send, and
\* a collector leaves its loop only over a closed channel.
C36_StagesTerminate ==
  /\ InParse ~> ~InParse
  /\ InRender ~> ~InRender
  /\ \A w \in Workers : (ppc[w] = "parse") ~> (ppc[w] # "parse")
  /\ \A w \in Workers : (rpc[w] = "gen") ~> (rpc[w] # "gen")
  /\ [][(InParse /\ ~InParse') => pwait = "closed"]_vars
  /\ [][(InRender /\ ~InRender') => rwait = "closed"]_vars

C36_Witness ==
  /\ pc = "copy"
  /\ workers = 1
  /\ enumerated = Files
  /\ rendered = Files
  /\ pwait = "closed"
  /\ rwait = "closed"

\* ------------------------------------------------------------------------
\* Properties of the parse workers (Spec)
\* ------------------------------------------------------------------------
\* the files the parse workers have in hand
InHand == {pcur[w] : w \in {v \in Workers : ppc[v] = "parse"}}

\* how often file f occurs in the result channel and in the error channel
Results(f) == Cardinality({i \in 1..Len(resultChan) : resultChan[i].path = f})
Errors(f) == Cardinality({i \in 1..Len(errorChan) : errorChan[i] = f})

\* C37: in the parse stage every file of the walk is waiting in fileChan,
\* in the hand of one worker, or parsed, and only one of the three; a file
\* is parsed once; and a parsed file has left one page (it is to be built),
\* one error (it does not parse) or nothing (it is filtered out).
C37_EachFileOnce ==
  /\ [](InParse =>
         /\ Range(fileChan) \cup InHand \cup parsed = enumerated
         /\ Cardinality(Range(fileChan)) = Len(fileChan)
         /\ Range(fileChan) \cap InHand = {}
         /\ Range(fileChan) \cap parsed = {}
         /\ InHand \cap parsed = {}
         /\ \A w, v \in Workers :
              (w # v /\ ppc[w] = "parse" /\ ppc[v] = "parse") => pcur[w] # pcur[v]
         /\ \A f \in Files :
              /\ Results(f) = IF f \in parsed /\ kind[f] # "bad" /\ f \in Buildable
                              THEN 1 ELSE 0
              /\ Errors(f) = IF f \in parsed /\ kind[f] = "bad" THEN 1 ELSE 0
         /\ pc = "collectErr" => parsed = enumerated)
  /\ [][\A w \in Workers :
          (ppc[w] = "parse" /\ ppc'[w] # "parse") => pcur[w] \notin parsed]_vars

C37_Witness ==
  /\ pc = "collectErr"
  /\ workers = 2
  /\ parsed = Files
  /\ kind["a.md"] = "bad"
  /\ kind["blog/b.md"] = "draft"
  /\ resultChan = <<>>
  /\ errorChan = <<"a.md">>

\* ------------------------------------------------------------------------
\* Frame of the incremental rebuild of content files (SpecEdit)
\* ------------------------------------------------------------------------
\* C38: an IncrementalBuild handed content files only leaves the cache and
\* b.pages as they were; every output file it writes holds the file's new
\* text rendered against b.pages as it was, in which the file's old entry
\* still stands.
C38_IncrementalFrame ==
  [][(pc = "idle" /\ lastOp'.kind = "incremental" /\ OnlyContent(lastOp'.changed)) =>
        /\ cache' = cache
        /\ pages' = pages
        /\ \A f \in Files :
             output'[f] # output[f] =>
               /\ output'[f].ver = mtime[f]
               /\ output'[f].ctx = RenderContext(pages)]_vars

C38_Witness ==
  /\ pc = "done"
  /\ IsIncremental
  /\ lastOp.changed = <<"a.md">>
  /\ lastErr = <<"none">>
  /\ mtime["a.md"] = 2
  /\ output["a.md"].whole
  /\ output["a.md"].ver = 2
  /\ output["a.md"].ctx = <<<<"a.md", 1>>, <<"blog/b.md", 1>>>>
  /\ RenderContext(pages) = <<<<"a.md", 1>>, <<"blog/b.md", 1>>>>
  /\ cache["a.md"] = 1

\* ------------------------------------------------------------------------
\* A failed parse stage (Spec)
\* ------------------------------------------------------------------------
\* C39: a Build whose parse stage collected an error leaves b.pages as it
\* was when the Build was entered, whatever pages the workers produced, and
\* the cache holds the modification time of every file the walk selected.
C39_FailedParseKeepsPages ==
  /\ [][(pc = "idle" /\ InParse') => pages' = pages]_vars
  /\ [][(InParse /\ InParse') => (pages' = pages /\ cache' = cache)]_vars
  /\ [][(pc = "collectErr" /\ pc' # "collectErr" /\ errorChan # <<>>) =>
          /\ lastErr'[1] = "parse"
          /\ pages' = pages
          /\ cache' = cache
          /\ \A f \in enumerated : cache'[f] = mtime[f]]_vars

C39_Witness ==
  /\ pc = "done"
  /\ fullRan
  /\ lastErr = <<"parse", "a.md">>
  /\ mtime["a.md"] = 2
  /\ cache["a.md"] = 2
  /\ RenderContext(pages) = <<<<"a.md", 1>>, <<"blog/b.md", 1>>>>

\* ------------------------------------------------------------------------
\* The events the watch loop ignores (SpecEvents)
\* ------------------------------------------------------------------------
\* the hidden path and the paths with an editor's temp suffix
IgnoredPaths == {HiddenPath, TildePath, TmpPath}

\* the event of the step, when the step receives one
Qualifies(ev) == ev.name \notin IgnoredPaths /\ ev.op = "write"

\* lastBuild = now
Stamps == elapsed' < elapsed

\* C40: a step that starts a rebuild or sets lastBuild has received a write
\* event for a path that is neither hidden nor has a temp suffix; a step
\* that receives any other event leaves the rebuild goroutines and the
\* debounce timestamp alone.
C40_IgnoredEventsDoNothing ==
  /\ [][(Triggers \/ Stamps) => Qualifies(lastEvent')]_vars
  /\ [][(lastEvent' # lastEvent /\ ~Qualifies(lastEvent')) =>
          (rb' = rb /\ elapsed' = elapsed)]_vars

C40_Witness ==
  /\ lastEvent = [name |-> TmpPath, op |-> "write"]
  /\ elapsed = Saturated
  /\ \A g \in Goroutines : rb[g].pc = "free"

====
